---- MODULE Spec2Model ----
(***************************************************************************)
(* Event synchronization engine (skillcorner-event-synchronization).       *)
(*                                                                         *)
(* Units.  Distances are in decimetres and accelerations in dm/s^2, so     *)
(* that the thresholds of the source (2.5 m, 3.0 m, 3.5 m, 7.0 m/s^2) are  *)
(* integers.  A timestamp is held as the exact product timestamp * 10 in   *)
(* units of 1/TsDen frame (ts = timestamp * 10 * TsDen).                   *)
(* Arrays of the feature store are functions over 0..NFrames-1 (frames)    *)
(* and 0..NbPlayers-1 (player slots).                                      *)
(***************************************************************************)
EXTENDS Integers, Sequences, FiniteSets, TLC

\* ---------------------------------------------------------------- bounds
\* number of tracking records (F)
NFrames == 52
\* timestamp resolution: timestamp * 10 is a multiple of 1/TsDen
TsDen == 4

\* ------------------------------------------------------ program constants
\* np.nan: a value outside every data range of the model
NaN == -1000000
\* an attribute that was never assigned (reading it raises AttributeError)
NoAttr == -2000000
\* Python's None (a null player id)
None == -1

DEFAULT_START_1 == 0
DEFAULT_START_2 == 27000
DEFAULT_START_3 == 54000
DEFAULT_START_4 == 63000
MIN_PASS_PER_PERIOD_12 == 10
MIN_PASS_PER_PERIOD_34 == 5
\* 2.5 m
TH_DIST_PLY_BALL == 25
\* 3.5 m
TH_IS_MATCHED == 35
\* 100.0 m
NAN_DIST == 1000
\* frames
OFFSET == 5
SEARCH_OFFSET == 25
\* 3.0 m
DIST_BALL_TH == 30
\* 7.0 m/s^2
BALL_ACC_TH == 70
LOCAL_OFFSET_FRAME_PAST == 5
\* -9999.0
NAN_TO_NUM == -99990

DEFAULT_START(period) ==
    CASE period = 1 -> DEFAULT_START_1
      [] period = 2 -> DEFAULT_START_2
      [] period = 3 -> DEFAULT_START_3
      [] OTHER -> DEFAULT_START_4

MIN_PASS_PER_PERIOD(period) ==
    IF period \in {1, 2} THEN MIN_PASS_PER_PERIOD_12 ELSE MIN_PASS_PER_PERIOD_34

\* ---------------------------------------------------------------- helpers
Frames == 0 .. NFrames - 1

Max2(a, b) == IF a >= b THEN a ELSE b
Min2(a, b) == IF a <= b THEN a ELSE b
Abs(a) == IF a < 0 THEN -a ELSE a

\* floor of num / den for den > 0 (TLA+'s \div rounds towards minus infinity)
FloorDiv(num, den) == num \div den

\* Python's round() of the exact rational num / den: to the nearest integer,
\* a tie going to the even neighbour
PyRound(num, den) ==
    LET q == FloorDiv(num, den)
        r == num - q * den
    IN  IF 2 * r < den THEN q
        ELSE IF 2 * r > den THEN q + 1
        ELSE IF q % 2 = 0 THEN q ELSE q + 1

\* a slice bound of a Python sequence of length n, as slice.indices() clamps it
PySliceBound(i, n) ==
    IF i < 0 THEN Max2(i + n, 0) ELSE Min2(i, n)

\* the frames arr[start:end] reads of an array of n rows
PySlice(start, end, n) ==
    { f \in 0 .. n - 1 : PySliceBound(start, n) <= f /\ f < PySliceBound(end, n) }

\* a function as an explicit table, each of its values computed once
Table(f) == f @@ <<>>

\* arr[i] with an integer i: in range after wrapping a negative index
PyIndexOk(i, n) == -n <= i /\ i < n
PyIndex(i, n) == IF i < 0 THEN i + n ELSE i


\* int(x) of the exact rational num / 2: truncation towards zero
TruncHalf(num) == IF num >= 0 THEN num \div 2 ELSE -((-num) \div 2)

\* ------------------------------------------------------------------ state
VARIABLES
    evIn,                \* the canonical events: the fields the adapters set
    provider_frame,      \* event.provider_frame, by event index (NoAttr: unset)
    skc_frame,           \* event.skc_frame
    is_matched,          \* event.is_matched
    is_player_detected,  \* event.is_player_detected
    frame_tracking_data_available,
    has_provider_player_id,
    dist,                \* formatted_dist_ply_ball[f][p]
    detected,            \* ply_formatted_is_detected[f][p]
    ply_pos,             \* ply_formatted_data[f][p]: NaN or a finite position
    ball_acc,            \* ball_formatted_data_speed_acc[f, 0, IDX_ACC_TO_REFINE]
    ply_kin,             \* ply_formatted_data_speed_acc[f][p]: <<speed, vx, vy, acc>>
    built,               \* the feature store as it was built (history)
    periods,             \* keys of periods_start_end_dict, in insertion order
    apply_refine,        \* argument of apply_synchronization_process
    event_provider,      \* events.event_provider
    fftTie,              \* which of several equal correlation peaks argmax returns
    starts,              \* refined_period_starts_dict
    refine_outcome,      \* where event_refinement returned, by event index
    pc,                  \* phase of the pipeline
    idx,                 \* position of the running loop
    err,                 \* the exception that ended the run ("none": none)
    tracking_data,       \* the caller's tracking records: the keys added to them
    match_data,          \* the caller's match catalogue: the keys added to it
    run,                 \* which call of apply_synchronization_process runs
    first,               \* the events as the first call left them (history)
    COLS_LIST_6,         \* event_output_manager.COLS_LIST[6], a module global
    eng,                 \* engines of other matches running in the process
    coarse,              \* the coarse estimates of a period, before and after a shift
    phys,                \* the kinematics of a player on a row, in cm/s and cm/s^2
    adapter,             \* a provider adapter standardizing its raw events
    proj,                \* the attacking sides of a match and an event projected on them
    report,              \* the report by event and its aggregate by event type
    warn,                \* the warning manager on the refined period starts
    fine,                \* the fine step of a period, from a coarse estimate given
    frz                  \* the output manager building the freeze-frame stream

inputs == <<evIn, periods, apply_refine, event_provider, fftTie, built>>
evOut == <<provider_frame, skc_frame, is_matched, is_player_detected,
           frame_tracking_data_available, has_provider_player_id>>
flags == <<is_matched, is_player_detected, frame_tracking_data_available,
           has_provider_player_id>>
store == <<dist, detected, ply_pos, ball_acc, ply_kin>>
catalogue == <<tracking_data, match_data>>
calls == <<run, first>>
\* state of the parts studied on their own, which the pipeline of one manager
\* leaves alone; a part that is not under study holds <<>>
components == <<eng, coarse, phys, adapter, proj, report, warn, fine, frz>>
EngIdle == eng = <<>>
CoarseIdle == coarse = <<>>
PhysIdle == phys = <<>>
AdapterIdle == adapter = <<>>
ProjIdle == proj = <<>>
ReportIdle == report = <<>>
WarnIdle == warn = <<>>
FineIdle == fine = <<>>
FrzIdle == frz = <<>>
NoComponent == EngIdle /\ CoarseIdle /\ PhysIdle /\ AdapterIdle /\ ProjIdle /\ ReportIdle /\ WarnIdle /\ FineIdle /\ FrzIdle
besidesEng == <<coarse, phys, adapter, proj, report, warn, fine, frz>>
IdleBesidesEng == CoarseIdle /\ PhysIdle /\ AdapterIdle /\ ProjIdle /\ ReportIdle /\ WarnIdle /\ FineIdle /\ FrzIdle
besidesCoarse == <<eng, phys, adapter, proj, report, warn, fine, frz>>
IdleBesidesCoarse == EngIdle /\ PhysIdle /\ AdapterIdle /\ ProjIdle /\ ReportIdle /\ WarnIdle /\ FineIdle /\ FrzIdle
besidesPhys == <<eng, coarse, adapter, proj, report, warn, fine, frz>>
IdleBesidesPhys == EngIdle /\ CoarseIdle /\ AdapterIdle /\ ProjIdle /\ ReportIdle /\ WarnIdle /\ FineIdle /\ FrzIdle
besidesAdapter == <<eng, coarse, phys, proj, report, warn, fine, frz>>
IdleBesidesAdapter == EngIdle /\ CoarseIdle /\ PhysIdle /\ ProjIdle /\ ReportIdle /\ WarnIdle /\ FineIdle /\ FrzIdle
besidesProj == <<eng, coarse, phys, adapter, report, warn, fine, frz>>
IdleBesidesProj == EngIdle /\ CoarseIdle /\ PhysIdle /\ AdapterIdle /\ ReportIdle /\ WarnIdle /\ FineIdle /\ FrzIdle
besidesReport == <<eng, coarse, phys, adapter, proj, warn, fine, frz>>
IdleBesidesReport == EngIdle /\ CoarseIdle /\ PhysIdle /\ AdapterIdle /\ ProjIdle /\ WarnIdle /\ FineIdle /\ FrzIdle
besidesWarn == <<eng, coarse, phys, adapter, proj, report, fine, frz>>
IdleBesidesWarn == EngIdle /\ CoarseIdle /\ PhysIdle /\ AdapterIdle /\ ProjIdle /\ ReportIdle /\ FineIdle /\ FrzIdle
besidesFine == <<eng, coarse, phys, adapter, proj, report, warn, frz>>
IdleBesidesFine == EngIdle /\ CoarseIdle /\ PhysIdle /\ AdapterIdle /\ ProjIdle /\ ReportIdle /\ WarnIdle /\ FrzIdle
besidesFrz == <<eng, coarse, phys, adapter, proj, report, warn, fine>>
IdleBesidesFrz == EngIdle /\ CoarseIdle /\ PhysIdle /\ AdapterIdle /\ ProjIdle /\ ReportIdle /\ WarnIdle /\ FineIdle
vars == <<inputs, evOut, store, starts, refine_outcome, pc, idx, err, catalogue, calls,
         COLS_LIST_6, components>>

NbEvents == Len(evIn)
Events == 1 .. NbEvents

\* FormattedTrackingManager.ply_id_to_idx: the players with a start_time
ply_id_to_idx == (1 :> 0) @@ (2 :> 1)
NbPlayers == Cardinality(DOMAIN ply_id_to_idx)
Slots == 0 .. NbPlayers - 1

IsRostered(player_id) == player_id \in DOMAIN ply_id_to_idx

\* -------------------------------------------------------- offset manager
\* int(event.timestamp * 10) without the round: truncation towards zero
get_event_frame_truncated(ts, event_period_first_frame) ==
    event_period_first_frame
        + (IF ts >= 0 THEN ts \div TsDen ELSE -((-ts) \div TsDen))

\* get_event_frame: event_period_first_frame + int(round(event.timestamp * 10))
get_event_frame(ts, event_period_first_frame) ==
    event_period_first_frame + PyRound(ts, TsDen)

\* get_is_players_close_to_ball: 1 where the distance is below the threshold,
\* 0 elsewhere and where it is NaN
is_players_close_to_ball(f, p) ==
    dist[f][p] # NaN /\ dist[f][p] < TH_DIST_PLY_BALL

\* get_ply_id_to_list_of_event_frame: the pass events of the period by player
PassEventsOf(period, ply_id) ==
    { i \in Events : /\ evIn[i].period = period
                     /\ evIn[i].kind = "pass"
                     /\ evIn[i].player_id # None
                     /\ evIn[i].player_id = ply_id }

\* the player takes part in the coarse estimate
HasEnoughPasses(period, ply_id) ==
    Cardinality(PassEventsOf(period, ply_id)) > MIN_PASS_PER_PERIOD(period)

\* the frames of the player's passes under the default start
CoarseFrames(period, ply_id) ==
    { get_event_frame(evIn[i].ts, DEFAULT_START(period)) : i \in PassEventsOf(period, ply_id) }

SetMax(S) == CHOOSE x \in S : \A y \in S : y <= x
SetMin(S) == CHOOSE x \in S : \A y \in S : x <= y

\* len(np.bincount(idx_events)[default_start:])
LenIsPlyEvent(period, ply_id) ==
    Max2(0, SetMax(CoarseFrames(period, ply_id)) + 1 - DEFAULT_START(period))

\* len(is_players_close_to_ball[default_start:, idx_ply])
LenCloseSeq(period) == Max2(0, NFrames - DEFAULT_START(period))

\* fftconvolve(close[default_start:], is_ply_event[::-1], 'full')[k] with
\* k = offset + len(is_ply_event) - 1: the number of passes of the player that
\* fall on a close frame when the period starts offset frames after the default
Correlation(period, ply_id, offset) ==
    Cardinality({ i \in PassEventsOf(period, ply_id) :
        LET r == PyRound(evIn[i].ts, TsDen)
        IN  /\ r >= 0
            /\ 0 <= r + offset /\ r + offset < LenCloseSeq(period)
            /\ is_players_close_to_ball(DEFAULT_START(period) + r + offset,
                                        ply_id_to_idx[ply_id]) })

\* np.argmax(...) - len(is_ply_event) + 1; among equal peaks the rounding of
\* the FFT decides, fixed per run by fftTie
CoarseOffset(period, ply_id) ==
    LET m == LenIsPlyEvent(period, ply_id)
        n == LenCloseSeq(period)
        offsets == (1 - m) .. (n - 1)
        conv == Table([o \in offsets |-> Correlation(period, ply_id, o)])
        peak == SetMax({ conv[o] : o \in offsets })
        best == { o \in offsets : conv[o] = peak }
    IN  IF fftTie = "first" THEN SetMin(best) ELSE SetMax(best)

\* the players whose estimate is appended to estimated_start_by_player
CoarsePlayers(period) ==
    { ply_id \in DOMAIN ply_id_to_idx : HasEnoughPasses(period, ply_id) }

\* what get_first_period_start_estimation raises, "none" when it returns
CoarseError(period) ==
    IF \E ply_id \in CoarsePlayers(period) :
            \E fr \in CoarseFrames(period, ply_id) : fr < 0
    THEN "ValueError"            \* np.bincount of a negative frame
    ELSE IF \E ply_id \in CoarsePlayers(period) :
            LenIsPlyEvent(period, ply_id) = 0 \/ LenCloseSeq(period) = 0
    THEN "ValueError"            \* np.argmax of an empty convolution
    ELSE IF CoarsePlayers(period) = {}
    THEN "ValueError"            \* int(np.percentile([], 50)): NaN to integer
    ELSE "none"

CoarseEstimate(period, ply_id) == CoarseOffset(period, ply_id) + DEFAULT_START(period)

\* the k-th smallest (k from 0) of the per-player estimates
KthEstimate(period, k) ==
    LET P == CoarsePlayers(period)
    IN  CHOOSE v \in { CoarseEstimate(period, q) : q \in P } :
            /\ Cardinality({ q \in P : CoarseEstimate(period, q) < v }) <= k
            /\ k < Cardinality({ q \in P : CoarseEstimate(period, q) <= v })

\* get_first_period_start_estimation: int(np.percentile(estimates, 50))
get_first_period_start_estimation(period) ==
    LET L == Cardinality(CoarsePlayers(period))
    IN  IF L % 2 = 1 THEN KthEstimate(period, (L - 1) \div 2)
        ELSE TruncHalf(KthEstimate(period, L \div 2 - 1) + KthEstimate(period, L \div 2))

\* the events get_matched_passes_list goes on with: passes of the period
\* with a player id, the player being in ply_id_to_idx
FinePassEvents(period) ==
    { i \in Events : /\ evIn[i].period = period
                     /\ evIn[i].kind = "pass"
                     /\ evIn[i].player_id # None
                     /\ IsRostered(evIn[i].player_id) }

\* the frames of formatted_dist_ply_ball[event_frame - 25 : event_frame + 25]
\* where the player is close to the ball (a NaN distance is never close)
ShortDistanceFrames(i, estimated_start) ==
    LET event_frame == get_event_frame(evIn[i].ts, estimated_start)
    IN  { f \in PySlice(event_frame - SEARCH_OFFSET, event_frame + SEARCH_OFFSET, NFrames) :
            is_players_close_to_ball(f, ply_id_to_idx[evIn[i].player_id]) }

\* event_frame + possession_indices_range[short_distances_indexes[-1]]: the
\* position in the slice of the last close frame, counted from event_frame - 25
MatchedFrame(i, estimated_start) ==
    LET event_frame == get_event_frame(evIn[i].ts, estimated_start)
        first_row == PySliceBound(event_frame - SEARCH_OFFSET, NFrames)
        last_short == SetMax(ShortDistanceFrames(i, estimated_start)) - first_row
    IN  event_frame + (last_short - SEARCH_OFFSET)

\* get_matched_passes_list: the events that have a matched frame
MatchedPasses(period, estimated_start) ==
    { i \in FinePassEvents(period) : ShortDistanceFrames(i, estimated_start) # {} }

RECURSIVE SumDeviation(_, _, _, _)
\* the sum over the matched passes S of |matched_frame - event_frame| under the
\* period start to test (the mean deviation times the number of matched passes)
SumDeviation(S, matched_frame, i, start_to_test) ==
    IF i > NbEvents THEN 0
    ELSE (IF i \in S
          THEN Abs(matched_frame[i] - get_event_frame(evIn[i].ts, start_to_test))
          ELSE 0)
         + SumDeviation(S, matched_frame, i + 1, start_to_test)

\* a fine step that returns the tested start itself, not the one before it
FineStartNotShifted(period, estimated_start) ==
    LET matched == MatchedPasses(period, estimated_start)
        matched_frame == Table([i \in matched |-> MatchedFrame(i, estimated_start)])
        tested == (estimated_start - SEARCH_OFFSET) .. (estimated_start + SEARCH_OFFSET - 1)
        deviation == Table([s \in tested |-> SumDeviation(matched, matched_frame, 1, s)])
        lowest == SetMin({ deviation[s] : s \in tested })
    IN  IF matched = {} THEN estimated_start
        ELSE SetMin({ s \in tested : deviation[s] = lowest })

\* get_refined_period_start, given the coarse estimate: the first tested start
\* of the lowest mean deviation, minus 1; the estimate when no pass matched
FineStart(period, estimated_start) ==
    LET matched == MatchedPasses(period, estimated_start)
        matched_frame == Table([i \in matched |-> MatchedFrame(i, estimated_start)])
        tested == (estimated_start - SEARCH_OFFSET) .. (estimated_start + SEARCH_OFFSET - 1)
        deviation == Table([s \in tested |-> SumDeviation(matched, matched_frame, 1, s)])
        lowest == SetMin({ deviation[s] : s \in tested })
    IN  IF matched = {} THEN estimated_start
        ELSE SetMin({ s \in tested : deviation[s] = lowest }) - 1

get_refined_period_start(period) ==
    FineStart(period, get_first_period_start_estimation(period))

\* add_event_skc_frame_attr: event.provider_frame of the events of the period
StampedProviderFrame(i, period, refined_start) ==
    IF evIn[i].period = period
    THEN get_event_frame(evIn[i].ts, refined_start)
    ELSE provider_frame[i]

\* a stamping that forgets the period start in skc_frame
StampedSkcFrameNoStart(i, period, refined_start) ==
    IF evIn[i].period = period
    THEN get_event_frame(evIn[i].ts, 0)
    ELSE skc_frame[i]

\* add_event_skc_frame_attr: event.skc_frame of the events of the period
StampedSkcFrame(i, period, refined_start) ==
    IF evIn[i].period = period
    THEN get_event_frame(evIn[i].ts, refined_start)
    ELSE skc_frame[i]

\* a process that matches before it refines
PhaseAfterMatchFirst(phase) ==
    CASE phase = "sync" -> "match"
      [] phase = "match" -> IF apply_refine \/ event_provider = "impect"
                            THEN "refine" ELSE "assemble"
      [] phase = "refine" -> "assemble"
      [] phase = "assemble" -> "done"

\* apply_synchronization_process: the phase that follows a phase; the
\* refinement runs when asked for or for impect
PhaseAfter(phase) ==
    CASE phase = "sync" -> IF apply_refine \/ event_provider = "impect"
                           THEN "refine" ELSE "match"
      [] phase = "refine" -> "match"
      [] phase = "match" -> "assemble"
      [] phase = "assemble" -> "done"

\* one turn of the loop of get_refined_period_start_and_add_skc_frame
SyncPeriod ==
    /\ pc = "sync"
    /\ idx <= Len(periods)
    /\ LET period == periods[idx]
       IN  IF CoarseError(period) # "none"
           THEN /\ err' = CoarseError(period)
                /\ pc' = "error"
                /\ UNCHANGED <<provider_frame, skc_frame, starts, idx>>
           ELSE \E s \in { get_refined_period_start(period) } :
                    /\ starts' = (period :> s) @@ starts
                    /\ provider_frame' =
                         [i \in Events |-> StampedProviderFrame(i, period, s)]
                    /\ skc_frame' =
                         [i \in Events |-> StampedSkcFrame(i, period, s)]
                    /\ idx' = idx + 1
                    /\ UNCHANGED <<pc, err>>
    /\ UNCHANGED <<inputs, calls, components, COLS_LIST_6, catalogue, flags, store, refine_outcome>>

\* WarningManager.warning_negative_period_start_estimation reads the start of
\* period 1; then the refinement runs when asked for or for impect
WarnNegativeStart ==
    /\ pc = "sync"
    /\ idx > Len(periods)
    /\ IF 1 \notin DOMAIN starts
       THEN pc' = "error" /\ err' = "KeyError"
       ELSE /\ pc' = PhaseAfter("sync")
            /\ err' = err
    /\ idx' = 1
    /\ UNCHANGED <<inputs, calls, components, COLS_LIST_6, catalogue, evOut, store, starts, refine_outcome>>

\* -------------------------------------------------------- refine manager
\* get_event_frame_before: the provider frame of the previous event of the list
get_event_frame_before(i) ==
    IF i > 1 THEN provider_frame[i - 1] ELSE 0

\* get_event_frame_after: the provider frame of the next event of the list
get_event_frame_after(i) ==
    IF i < NbEvents THEN provider_frame[i + 1] ELSE NFrames

Max3(a, b, c) == Max2(a, Max2(b, c))
Min3(a, b, c) == Min2(a, Min2(b, c))

\* get_frame_window_start_end
frame_start_window(i) ==
    Max3(0, provider_frame[i] - evIn[i].offset_refine, get_event_frame_before(i) + 1)

\* the end of the window without the clamp against the next event
frame_end_window_no_neighbour(i) ==
    Min2(provider_frame[i] + evIn[i].offset_refine, NFrames)

frame_end_window(i) ==
    Min3(provider_frame[i] + evIn[i].offset_refine, NFrames, get_event_frame_after(i) - 1)

\* the rows [frame_start_window : frame_end_window] of the store
Window(i) == PySlice(frame_start_window(i), frame_end_window(i), NFrames)

\* check_is_detected_enough_condition: ratio of detected frames > IS_DETECTED_TH
\* (0.5), that is 2 * detected frames > frames of the window
check_is_detected_enough_condition(i, p) ==
    2 * Cardinality({ f \in Window(i) : detected[f][p] }) > Cardinality(Window(i))

\* get_masked_dist_ply_ball_window: mask_dist_ply_ball, true where the distance
\* is above DIST_BALL_TH (the comparison of a NaN is false)
mask_dist_ply_ball(f, p) ==
    dist[f][p] # NaN /\ dist[f][p] > DIST_BALL_TH

\* get_masked_ball_acc_window: the ball acceleration, NaN where masked
masked_ball_acc(f, p) ==
    IF mask_dist_ply_ball(f, p) THEN NaN ELSE ball_acc[f]

\* get_refine_idx_in_window: the frames kept by the local mask, from
\* LOCAL_OFFSET_FRAME_PAST rows before the last finite row up to it
LocalFrames(i, p) ==
    LET last_idx == SetMax({ f \in Window(i) : masked_ball_acc(f, p) # NaN })
    IN  { f \in Window(i) :
            /\ Max2(frame_start_window(i), last_idx - LOCAL_OFFSET_FRAME_PAST) <= f
            /\ f <= last_idx
            /\ masked_ball_acc(f, p) # NaN }

\* np.nanmax of the locally masked ball acceleration
LocalMaxAcc(i, p) == SetMax({ masked_ball_acc(f, p) : f \in LocalFrames(i, p) })

\* the peak counts when it reaches BALL_ACC_TH
PeakIsHighEnough(acc) == ~ (acc < BALL_ACC_TH)

\* an argmax that returns the last frame of the maximum
LocalArgMaxLast(i, p) ==
    SetMax({ f \in LocalFrames(i, p) : masked_ball_acc(f, p) = LocalMaxAcc(i, p) })

\* np.nanargmax: the first frame of the maximum
LocalArgMax(i, p) ==
    SetMin({ f \in LocalFrames(i, p) : masked_ball_acc(f, p) = LocalMaxAcc(i, p) })

\* what event_refinement raises before it starts, "none" when nothing
RefineError(i) ==
    IF i > 1 /\ provider_frame[i - 1] = NoAttr THEN "AttributeError"
    ELSE IF i < NbEvents /\ provider_frame[i + 1] = NoAttr THEN "AttributeError"
    ELSE IF provider_frame[i] = NoAttr THEN "AttributeError"
    ELSE IF evIn[i].offset_refine = None THEN "TypeError"
    ELSE "none"

\* event_refinement: the return it takes, and the frame it assigns
event_refinement(i) ==
    LET p == ply_id_to_idx[evIn[i].player_id]
    IN  IF frame_end_window(i) - frame_start_window(i) < 1
        THEN [kind |-> "empty_window", frame |-> NoAttr]
        ELSE IF ~ check_is_detected_enough_condition(i, p)
        THEN [kind |-> "low_detection", frame |-> NoAttr]
        ELSE IF \A f \in Window(i) : mask_dist_ply_ball(f, p)
        THEN [kind |-> "no_close", frame |-> NoAttr]
        ELSE IF \A f \in Window(i) : masked_ball_acc(f, p) = NaN
        THEN [kind |-> "acc_masked", frame |-> NoAttr]
        ELSE IF ~ PeakIsHighEnough(LocalMaxAcc(i, p))
        THEN [kind |-> "low_peak", frame |-> NoAttr]
        ELSE [kind |-> "refined", frame |-> LocalArgMax(i, p)]

\* a rule for impect that refines every event to refine, asked for or not
refine_impect_rule_to_refine(i) ==
    evIn[i].to_refine

\* refine_impect_rule
refine_impect_rule(i) ==
    IF apply_refine THEN evIn[i].to_refine ELSE evIn[i].force_to_refine

\* apply_events_refinement_process: the event goes through event_refinement
IsRefineCandidate(i) ==
    /\ IsRostered(evIn[i].player_id)
    /\ IF event_provider = "impect" THEN refine_impect_rule(i) ELSE evIn[i].to_refine

\* an early return that leaves the start of the window in skc_frame
SkcAssignedOnAbort(i, out) ==
    IF out.kind = "refined" THEN out.frame ELSE frame_start_window(i)

\* event.skc_frame after event_refinement took the return out
SkcAfterRefinement(i, out) ==
    IF out.kind = "refined" THEN out.frame ELSE skc_frame[i]

\* one turn of the loop of apply_events_refinement_process
RefineEvent ==
    /\ pc = "refine"
    /\ idx <= NbEvents
    /\ IF ~ IsRefineCandidate(idx)
       THEN /\ refine_outcome' = [refine_outcome EXCEPT ![idx] = "skipped"]
            /\ idx' = idx + 1
            /\ UNCHANGED <<skc_frame, pc, err>>
       ELSE IF RefineError(idx) # "none"
       THEN /\ refine_outcome' = [refine_outcome EXCEPT ![idx] = "error"]
            /\ err' = RefineError(idx)
            /\ pc' = "error"
            /\ UNCHANGED <<skc_frame, idx>>
       ELSE \E out \in { event_refinement(idx) } :
                /\ refine_outcome' = [refine_outcome EXCEPT ![idx] = out.kind]
                /\ skc_frame' = [skc_frame EXCEPT ![idx] = SkcAfterRefinement(idx, out)]
                /\ idx' = idx + 1
                /\ UNCHANGED <<pc, err>>
    /\ UNCHANGED <<inputs, calls, components, COLS_LIST_6, catalogue, provider_frame, flags, store, starts>>

\* the refinement loop is over: the matching starts
RefineDone ==
    /\ pc = "refine"
    /\ idx > NbEvents
    /\ pc' = PhaseAfter("refine")
    /\ idx' = 1
    /\ UNCHANGED <<inputs, calls, components, COLS_LIST_6, catalogue, evOut, store, starts, refine_outcome, err>>

\* ------------------------------------------------------ matching manager
\* add_is_matched_attr: the rows of dist_ply_ball_seq
MatchWindow(frame) ==
    PySlice(Max2(frame - OFFSET, 0), Min2(frame + OFFSET, NFrames), NFrames)

\* dist_ply_ball_seq[np.isnan(dist_ply_ball_seq)] = NAN_DIST: the slice is a
\* view, the assignment writes the cells of formatted_dist_ply_ball
DistAfterMatch(frame, p) ==
    [f \in Frames |->
        IF f \in MatchWindow(frame) /\ dist[f][p] = NaN
        THEN [dist[f] EXCEPT ![p] = NAN_DIST]
        ELSE dist[f]]

\* bool(np.sum(dist_ply_ball_seq <= TH_IS_MATCHED) > 0), on the written cells
IsMatchedValue(frame, p) ==
    \E f \in MatchWindow(frame) :
        (IF dist[f][p] = NaN THEN NAN_DIST ELSE dist[f][p]) <= TH_IS_MATCHED

\* add_is_player_detected_attr raises IndexError on a row out of the array
PlayerDetectedRaises(frame) ==
    ~ (frame > NFrames) /\ ~ PyIndexOk(frame, NFrames)

\* add_is_player_detected_attr
IsPlayerDetectedValue(frame, p) ==
    IF frame > NFrames THEN FALSE
    ELSE detected[PyIndex(frame, NFrames)][p]

\* add_frame_tracking_data_available raises IndexError on a row out of the array
TrackingAvailableRaises(frame) ==
    ~ (frame > NFrames) /\ ~ PyIndexOk(frame, NFrames)

\* add_frame_tracking_data_available: some player has a finite position
TrackingAvailableValue(frame) ==
    IF frame > NFrames THEN FALSE
    ELSE \E q \in Slots : ply_pos[PyIndex(frame, NFrames)][q] # NaN

\* has_provider_player_id set as for a player of the match
HasProviderPlayerIdAlways(i) == TRUE

\* has_provider_player_id of an event whose player is not in ply_id_to_idx
HasProviderPlayerIdUnrostered(i) == evIn[i].provider_player_id # None

\* one turn of the loop of run_is_matched_process, for an unknown player
MatchUnrostered(i) ==
    /\ ~ IsRostered(evIn[i].player_id)
    /\ is_matched' = [is_matched EXCEPT ![i] = FALSE]
    /\ is_player_detected' = [is_player_detected EXCEPT ![i] = FALSE]
    /\ has_provider_player_id' =
          [has_provider_player_id EXCEPT ![i] = HasProviderPlayerIdUnrostered(i)]
    /\ IF skc_frame[i] = NoAttr
       THEN /\ err' = "AttributeError" /\ pc' = "error"
            /\ UNCHANGED <<frame_tracking_data_available, idx>>
       ELSE IF TrackingAvailableRaises(skc_frame[i])
       THEN /\ err' = "IndexError" /\ pc' = "error"
            /\ UNCHANGED <<frame_tracking_data_available, idx>>
       ELSE /\ frame_tracking_data_available' =
                 [frame_tracking_data_available EXCEPT
                    ![i] = TrackingAvailableValue(skc_frame[i])]
            /\ idx' = idx + 1
            /\ UNCHANGED <<pc, err>>
    /\ UNCHANGED dist

\* one turn of the loop of run_is_matched_process, for a player of the match
MatchRostered(i) ==
    /\ IsRostered(evIn[i].player_id)
    /\ \E p \in { ply_id_to_idx[evIn[i].player_id] }, frame \in { skc_frame[i] } :
           IF frame = NoAttr
           THEN /\ err' = "AttributeError" /\ pc' = "error"
                /\ UNCHANGED <<flags, dist, idx>>
           ELSE /\ dist' = DistAfterMatch(frame, p)
                /\ is_matched' = [is_matched EXCEPT ![i] = IsMatchedValue(frame, p)]
                /\ IF PlayerDetectedRaises(frame)
                   THEN /\ err' = "IndexError" /\ pc' = "error"
                        /\ UNCHANGED <<is_player_detected, has_provider_player_id,
                                       frame_tracking_data_available, idx>>
                   ELSE /\ is_player_detected' =
                             [is_player_detected EXCEPT
                                ![i] = IsPlayerDetectedValue(frame, p)]
                        /\ has_provider_player_id' =
                             [has_provider_player_id EXCEPT ![i] = TRUE]
                        /\ IF TrackingAvailableRaises(frame)
                           THEN /\ err' = "IndexError" /\ pc' = "error"
                                /\ UNCHANGED <<frame_tracking_data_available, idx>>
                           ELSE /\ frame_tracking_data_available' =
                                     [frame_tracking_data_available EXCEPT
                                        ![i] = TrackingAvailableValue(frame)]
                                /\ idx' = idx + 1
                                /\ UNCHANGED <<pc, err>>

\* run_is_matched_process, event by event
MatchEvent ==
    /\ pc = "match"
    /\ idx <= NbEvents
    /\ (MatchUnrostered(idx) \/ MatchRostered(idx))
    /\ UNCHANGED <<inputs, calls, components, COLS_LIST_6, catalogue, provider_frame, skc_frame, detected, ply_pos, ball_acc,
                   ply_kin, starts, refine_outcome>>

\* the matching loop is over: the reports are built
MatchDone ==
    /\ pc = "match"
    /\ idx > NbEvents
    /\ pc' = PhaseAfter("match")
    /\ idx' = 1
    /\ UNCHANGED <<inputs, calls, components, COLS_LIST_6, catalogue, evOut, store, starts, refine_outcome, err>>

\* -------------------------------------------------------- output manager
\* np.nan_to_num(ply_formatted_data_speed_acc, nan=NAN_TO_NUM), stored back in
\* the formatted data manager
NanToNum(kin) ==
    [f \in Frames |->
        [q \in Slots |->
            [c \in DOMAIN kin[f][q] |->
                IF kin[f][q][c] = NaN THEN NAN_TO_NUM ELSE kin[f][q][c]]]]

\* get_team_id_to_team: match_data[team_type]['team_type'] = team_type
TeamTypeAdded(md) ==
    [team \in DOMAIN md |-> [md[team] EXCEPT !.team_type = team]]

\* add_speed_acc_in_tracking_data: player_data.update(...) on every player
\* record of every tracking record
KinematicsAdded(td) ==
    [f \in Frames |->
        IF \E q \in Slots : ply_pos[f][q] # NaN
        THEN [td[f] EXCEPT !.kinematics = TRUE]
        ELSE td[f]]

\* the events that get_freeze_frame_format writes on the record of frame f
FreezeFrameEvents(f) ==
    { i \in Events : skc_frame[i] # NoAttr /\ skc_frame[i] = f }

\* get_freeze_frame_format over the event list: the record of the frame of an
\* event takes the keys of the event, the last event of the frame last
FreezeFramesWritten(td) ==
    [f \in Frames |->
        IF FreezeFrameEvents(f) # {}
        THEN [td[f] EXCEPT !.event = SetMax(FreezeFrameEvents(f))]
        ELSE td[f]]

\* f'is_not_matched_has_{event_provider}_player_id_attached'
PlayerIdAttachedColumn(provider) == <<"is_not_matched_has", provider, "player_id_attached">>

\* EventsOutputManager(...).get_reports_and_freeze_frame_format
Assemble ==
    /\ pc = "assemble"
    /\ match_data' = TeamTypeAdded(match_data)
    /\ ply_kin' = NanToNum(ply_kin)
    /\ tracking_data' = FreezeFramesWritten(KinematicsAdded(tracking_data))
    /\ COLS_LIST_6' = PlayerIdAttachedColumn(event_provider)
    /\ pc' = PhaseAfter("assemble")
    /\ UNCHANGED <<inputs, calls, components, evOut, dist, detected, ply_pos, ball_acc, starts,
                   refine_outcome, idx, err>>

\* ------------------------------------------------------------ the inputs
\* a canonical event as an adapter builds it
Event(period, ts, kind, player_id, provider_player_id, to_refine, force_to_refine, offset_refine) ==
    [period |-> period, ts |-> ts, kind |-> kind, player_id |-> player_id,
     provider_player_id |-> provider_player_id, to_refine |-> to_refine,
     force_to_refine |-> force_to_refine, offset_refine |-> offset_refine]

\* impect.py's OFFSET_REFINE and OFFSET_FORCE_REFINE (statsbomb.py's is 5 too)
OFFSET_REFINE == 5
OFFSET_FORCE_REFINE == 15

\* get_offset_refine
get_offset_refine(to_refine, force_to_refine) ==
    IF force_to_refine THEN OFFSET_FORCE_REFINE
    ELSE IF to_refine THEN OFFSET_REFINE
    ELSE None

\* a pass of player 1 at frame KickFrame of its period: with more than
\* MIN_PASS_PER_PERIOD of them the period can be synchronized
KickFrame == 30
BulkPass == Event(1, KickFrame * TsDen, "pass", 1, 101, TRUE, FALSE, OFFSET_REFINE)

\* the players an event names: of the match, unknown to it, or none
PlayerChoices ==
    { <<1, 101>>, <<9, 109>>, <<None, 100>>, <<None, None>> }

\* the kinds of events: <<generic kind, to_refine, force_to_refine>>
KindChoices(provider) ==
    { <<"pass", TRUE, FALSE>>, <<"generic", FALSE, FALSE>> }
    \cup (IF provider = "impect" THEN { <<"pass", TRUE, TRUE>> } ELSE {})

\* a column of the store: inV on the rows a .. a + len - 1, outV elsewhere
RunCol(a, len, inV, outV) ==
    [f \in Frames |-> IF a <= f /\ f < a + len THEN inV ELSE outV]

\* the ball acceleration: NaN on the two first and two last rows (the padding
\* of compute_speeds_acc), a peak on row k
AccCol(k, peak, base) ==
    [f \in Frames |->
        IF f < 2 \/ f >= NFrames - 2 THEN NaN
        ELSE IF f = k THEN peak ELSE base]

\* the player kinematics: NaN on the first and last row (the padding)
KinInit ==
    [f \in Frames |->
        [q \in Slots |->
            IF f = 0 \/ f = NFrames - 1 THEN <<NaN, NaN, NaN, NaN>>
            ELSE <<30, 30, 0, NaN>>]]

\* the store built from a column of distances of slot 0 (the player of slot 1
\* has no sample), the ball being tracked on every row
StoreInit(dcol, detcol, acc) ==
    /\ dist = [f \in Frames |-> [q \in Slots |-> IF q = 0 THEN dcol[f] ELSE NaN]]
    /\ ply_pos = [f \in Frames |-> [q \in Slots |-> IF q = 0 THEN dcol[f] ELSE NaN]]
    /\ detected = [f \in Frames |-> [q \in Slots |-> q = 0 /\ detcol[f]]]
    /\ ball_acc = acc
    /\ ply_kin = KinInit
    /\ built = [dist |-> dist, ply_kin |-> ply_kin]

\* the first call in a fresh process; the tracking records and the match catalogue as the caller passes them: no
\* event key (0) and no kinematics key on a record, no team_type on a team
CatalogueInit ==
    /\ run = 1
    /\ first = <<>>
    /\ COLS_LIST_6 = <<"is_not_matched_has_provider_player_id">>
    /\ NoComponent
    /\ tracking_data = [f \in Frames |-> [event |-> 0, kinematics |-> FALSE]]
    /\ match_data = [team \in {"home_team", "away_team"} |-> [team_type |-> "absent"]]

\* the events carry no frame and no flag yet
EventsInit ==
    /\ provider_frame = [i \in Events |-> NoAttr]
    /\ skc_frame = [i \in Events |-> NoAttr]
    /\ is_matched = [i \in Events |-> FALSE]
    /\ is_player_detected = [i \in Events |-> FALSE]
    /\ frame_tracking_data_available = [i \in Events |-> FALSE]
    /\ has_provider_player_id = [i \in Events |-> FALSE]
    /\ refine_outcome = [i \in Events |-> "none"]

RECURSIVE Repeat(_, _)
Repeat(x, n) == IF n = 0 THEN <<>> ELSE <<x>> \o Repeat(x, n - 1)

\* timestamps of the event under study, in frames * TsDen
ExtraTs ==
    { -6 * TsDen, (KickFrame + 1) * TsDen - 1, (NFrames - 2) * TsDen }

\* the event under study
ExtraEvents(provider) ==
    { Event(1, ts, k[1], pl[1], pl[2], k[2], k[3], get_offset_refine(k[2], k[3])) :
        ts \in ExtraTs, pl \in PlayerChoices, k \in KindChoices(provider) }

\* the distances of slot 0: close to the ball on one row, or on none
DistCols ==
    { RunCol(KickFrame, 1, 20, 40), RunCol(KickFrame + 3, 1, 20, NaN),
      RunCol(0, 0, 20, 40), RunCol(0, 0, 20, NaN) }

HasCloseRow(dcol) == \E f \in Frames : dcol[f] # NaN /\ dcol[f] < TH_DIST_PLY_BALL

\* EventSynchronizationManager(tracking_data, match_data, events): the store is
\* built, the events are standardized
Init ==
    /\ event_provider \in {"statsbomb", "impect"}
    /\ apply_refine \in BOOLEAN
    /\ periods = <<1>>
    /\ \E nb \in {MIN_PASS_PER_PERIOD_12, MIN_PASS_PER_PERIOD_12 + 1} :
       \E e \in ExtraEvents(event_provider) :
         evIn = Repeat(BulkPass, nb) \o <<e>>
    /\ \E dcol \in DistCols :
         /\ StoreInit(dcol, [f \in Frames |-> dcol[f] # NaN],
                      AccCol(SetMin({ f \in Frames : dcol[f] # 40 } \cup {NFrames}), 80, 10))
         /\ fftTie \in (IF HasCloseRow(dcol) THEN {"first"} ELSE {"first", "last"})
    /\ EventsInit
    /\ CatalogueInit
    /\ starts = <<>>
    /\ pc = "sync"
    /\ idx = 1
    /\ err = "none"

Next ==
    \/ SyncPeriod
    \/ WarnNegativeStart
    \/ RefineEvent
    \/ RefineDone
    \/ MatchEvent
    \/ MatchDone
    \/ Assemble

Spec == Init /\ [][Next]_vars

\* --------------------------- events of a period the tracking does not have
\* POSSIBLE_PERIOD_ID of the adapters lets the periods 1 to 4 through; the
\* tracking stream has frames of period 1 only
EventPeriods == {1, 2}

\* as Init, the event under study being of a period of EventPeriods
InitPeriods ==
    /\ event_provider \in {"statsbomb", "impect"}
    /\ apply_refine \in BOOLEAN
    /\ periods = <<1>>
    /\ \E e \in ExtraEvents(event_provider), period \in EventPeriods :
         evIn = Repeat(BulkPass, MIN_PASS_PER_PERIOD_12 + 1) \o <<[e EXCEPT !.period = period]>>
    /\ \E dcol \in DistCols :
         /\ StoreInit(dcol, [f \in Frames |-> dcol[f] # NaN],
                      AccCol(SetMin({ f \in Frames : dcol[f] # 40 } \cup {NFrames}), 80, 10))
         /\ fftTie \in (IF HasCloseRow(dcol) THEN {"first"} ELSE {"first", "last"})
    /\ EventsInit
    /\ CatalogueInit
    /\ starts = <<>>
    /\ pc = "sync"
    /\ idx = 1
    /\ err = "none"

SpecPeriods == InitPeriods /\ [][Next]_vars

\* ------------------------------------------- the refinement on its own
\* provider frames of three successive passes of player 1: apart, tied, or out
\* of order (the adapters keep the order of the provider's file)
RefineFrames ==
    { <<a, b, c>> : a \in {KickFrame - 12, KickFrame - 10, KickFrame - 6},
                    b \in {KickFrame - 10, KickFrame - 8},
                    c \in {KickFrame - 8, KickFrame - 7, KickFrame + 10} }

\* the distances of slot 0 around the passes: two close rows, or none; or
\* close on every row but row KickFrame - 11, where the player has no sample
RefineDistCols ==
    { RunCol(a, len, v, base) :
        a \in {KickFrame - 11, KickFrame - 9}, len \in {0, 2},
        v \in {DIST_BALL_TH - 10, DIST_BALL_TH}, base \in {40, NaN} }
    \cup { RunCol(KickFrame - 11, 1, NaN, DIST_BALL_TH - 10) }

\* the ball acceleration: a peak at or under the threshold, the same peak on
\* two rows in a row, or no ball at all
RefineAccCols ==
    { AccCol(k, peak, 10) :
        k \in {KickFrame - 11, KickFrame - 8}, peak \in {BALL_ACC_TH - 1, BALL_ACC_TH} }
    \cup { [f \in Frames |-> IF f = KickFrame - 10 THEN BALL_ACC_TH + 10
                             ELSE AccCol(KickFrame - 11, BALL_ACC_TH + 10, 10)[f]] }
    \cup { [f \in Frames |-> NaN] }

\* the detection flags: on every row, from row KickFrame - 9 on, on every
\* other row (the player is extrapolated in between), or on every row but row
\* KickFrame - 11
RefineDetCols ==
    { [f \in Frames |-> TRUE], [f \in Frames |-> f >= KickFrame - 9],
      [f \in Frames |-> f % 2 = 0], [f \in Frames |-> f # KickFrame - 11] }

\* EventRefineManager(events, formatted_data_manager) on the events of a
\* period stamped with the start 0
InitRefine ==
    /\ event_provider = "statsbomb"
    /\ apply_refine = TRUE
    /\ periods = <<1>>
    /\ fftTie = "first"
    /\ starts = <<DEFAULT_START_1>>
    /\ \E fr \in RefineFrames :
          /\ evIn = [i \in 1 .. 3 |->
                        Event(1, fr[i] * TsDen, "pass", 1, 101, TRUE, FALSE, OFFSET_REFINE)]
          /\ provider_frame = [i \in 1 .. 3 |-> get_event_frame(evIn[i].ts, starts[1])]
          /\ skc_frame = provider_frame
    /\ \E dcol \in RefineDistCols, acc \in RefineAccCols, det \in RefineDetCols :
          StoreInit(dcol, det, acc)
    /\ is_matched = [i \in Events |-> FALSE]
    /\ is_player_detected = [i \in Events |-> FALSE]
    /\ frame_tracking_data_available = [i \in Events |-> FALSE]
    /\ has_provider_player_id = [i \in Events |-> FALSE]
    /\ refine_outcome = [i \in Events |-> "none"]
    /\ CatalogueInit
    /\ pc = "refine"
    /\ idx = 1
    /\ err = "none"

NextRefine ==
    \/ RefineEvent
    \/ RefineDone

SpecRefine == InitRefine /\ [][NextRefine]_vars

\* ------------------------------- the refinement of two players' events
\* provider frames of two successive passes: apart or tied
OrderFrames ==
    { <<KickFrame - 10, KickFrame - 6>>, <<KickFrame - 10, KickFrame - 7>>,
      <<KickFrame - 10, KickFrame - 10>> }

\* the distances of a player to the ball: close on one row between the two
\* passes, or on none
OrderDistCols ==
    { RunCol(a, len, DIST_BALL_TH - 10, 40) :
        a \in {KickFrame - 9, KickFrame - 8}, len \in {0, 1} }

\* the ball acceleration: the same peak on the two rows between the passes, a
\* peak on the first of them, or no ball at all
OrderAccCols ==
    { [f \in Frames |-> IF f = KickFrame - 8 THEN BALL_ACC_TH
                        ELSE AccCol(KickFrame - 9, BALL_ACC_TH, 10)[f]],
      AccCol(KickFrame - 9, BALL_ACC_TH, 10), [f \in Frames |-> NaN] }

\* the store built from a column of distances for each of the two players,
\* each detected on the rows where it has a sample
StoreOfTwo(dcols, acc) ==
    /\ dist = [f \in Frames |-> [q \in Slots |-> dcols[q + 1][f]]]
    /\ ply_pos = [f \in Frames |-> [q \in Slots |-> dcols[q + 1][f]]]
    /\ detected = [f \in Frames |-> [q \in Slots |-> dcols[q + 1][f] # NaN]]
    /\ ball_acc = acc
    /\ ply_kin = KinInit
    /\ built = [dist |-> dist, ply_kin |-> ply_kin]

\* EventRefineManager(events, formatted_data_manager) on two passes, each of
\* one of the two players of the match, stamped with the start 0
InitOrder ==
    /\ event_provider = "statsbomb"
    /\ apply_refine = TRUE
    /\ periods = <<1>>
    /\ fftTie = "first"
    /\ starts = <<DEFAULT_START_1>>
    /\ \E fr \in OrderFrames, ply \in {1, 2} \X {1, 2} :
          /\ evIn = [i \in 1 .. 2 |->
                        Event(1, fr[i] * TsDen, "pass", ply[i], 100 + ply[i],
                              TRUE, FALSE, OFFSET_REFINE)]
          /\ provider_frame = [i \in 1 .. 2 |-> get_event_frame(evIn[i].ts, starts[1])]
          /\ skc_frame = provider_frame
    /\ \E dcols \in OrderDistCols \X OrderDistCols, acc \in OrderAccCols :
          StoreOfTwo(dcols, acc)
    /\ is_matched = [i \in Events |-> FALSE]
    /\ is_player_detected = [i \in Events |-> FALSE]
    /\ frame_tracking_data_available = [i \in Events |-> FALSE]
    /\ has_provider_player_id = [i \in Events |-> FALSE]
    /\ refine_outcome = [i \in Events |-> "none"]
    /\ CatalogueInit
    /\ pc = "refine"
    /\ idx = 1
    /\ err = "none"

SpecOrder == InitOrder /\ [][NextRefine]_vars

\* ------------------------------------------------- the pipeline, twice
\* the distances of slot 0: close to the ball on row KickFrame, and either
\* known on every row or unknown on the next row (the player has no sample)
TwiceDistCols ==
    { RunCol(KickFrame, 1, 20, 40),
      [f \in Frames |-> IF f = KickFrame + 1 THEN NaN ELSE RunCol(KickFrame, 1, 20, 40)[f]] }

\* EventSynchronizationManager(tracking_data, match_data, events), the ball
\* accelerating on row KickFrame + 1
InitTwice ==
    /\ event_provider \in {"statsbomb", "impect"}
    /\ apply_refine \in BOOLEAN
    /\ periods = <<1>>
    /\ \E e \in ExtraEvents(event_provider) :
         evIn = Repeat(BulkPass, MIN_PASS_PER_PERIOD_12 + 1) \o <<e>>
    /\ \E dcol \in TwiceDistCols :
         StoreInit(dcol, [f \in Frames |-> dcol[f] # NaN], AccCol(KickFrame + 1, 80, 10))
    /\ fftTie = "first"
    /\ EventsInit
    /\ CatalogueInit
    /\ starts = <<>>
    /\ pc = "sync"
    /\ idx = 1
    /\ err = "none"

\* the caller calls apply_synchronization_process again on the same manager:
\* the events and the store are as the first call left them
SecondCall ==
    /\ pc = "done"
    /\ run = 1
    /\ run' = 2
    /\ first' = evOut
    /\ starts' = <<>>
    /\ refine_outcome' = [i \in Events |-> "none"]
    /\ pc' = "sync"
    /\ idx' = 1
    /\ UNCHANGED <<inputs, evOut, store, err, catalogue, COLS_LIST_6, components>>

NextTwice ==
    \/ SyncPeriod
    \/ WarnNegativeStart
    \/ RefineEvent
    \/ RefineDone
    \/ MatchEvent
    \/ MatchDone
    \/ Assemble
    \/ SecondCall

SpecTwice == InitTwice /\ [][NextTwice]_vars

\* ------------------------------------------- two engines in one process
Providers == {"statsbomb", "impect", "opta", "wyscout"}

\* no manager of the pipeline above is running: its events are done with
PipelineIdle ==
    /\ event_provider = "statsbomb"
    /\ apply_refine = TRUE
    /\ periods = <<1>>
    /\ fftTie = "first"
    /\ evIn = <<>>
    /\ StoreInit(RunCol(0, 0, 20, 40), [f \in Frames |-> TRUE], AccCol(KickFrame, 80, 10))
    /\ EventsInit
    /\ starts = <<>>
    /\ pc = "done"
    /\ idx = 1
    /\ err = "none"
    /\ tracking_data = [f \in Frames |-> [event |-> 0, kinematics |-> FALSE]]
    /\ match_data = [team \in {"home_team", "away_team"} |-> [team_type |-> "absent"]]
    /\ run = 1
    /\ first = <<>>

\* two managers, each with the events of its own provider, have reached
\* get_report_by_event_type in two threads of a fresh process
InitEngines ==
    /\ PipelineIdle
    /\ IdleBesidesEng
    /\ COLS_LIST_6 = <<"is_not_matched_has_provider_player_id">>
    /\ \E p1, p2 \in Providers :
          eng = [e \in 1 .. 2 |->
                    [provider |-> IF e = 1 THEN p1 ELSE p2, pc |-> "aggregate",
                     columns |-> <<>>]]

\* get_report_by_event_type up to the group-by: the frame of the engine gets
\* the column named after its own provider
EngAggregate ==
    \E e \in DOMAIN eng :
        /\ eng[e].pc = "aggregate"
        /\ eng' = [eng EXCEPT ![e].pc = "set_cols"]
        /\ UNCHANGED <<inputs, calls, evOut, store, starts, refine_outcome, pc, idx, err,
                       catalogue, COLS_LIST_6, besidesEng>>

\* COLS_LIST[6] = f'is_not_matched_has_{event_provider}_player_id_attached'
EngSetCols ==
    \E e \in DOMAIN eng :
        /\ eng[e].pc = "set_cols"
        /\ COLS_LIST_6' = PlayerIdAttachedColumn(eng[e].provider)
        /\ eng' = [eng EXCEPT ![e].pc = "select"]
        /\ UNCHANGED <<inputs, calls, evOut, store, starts, refine_outcome, pc, idx, err,
                       catalogue, besidesEng>>

\* report_by_event_type[[...] + COLS_LIST]: KeyError when a name of COLS_LIST
\* is no column of the frame of the engine
EngSelectCols ==
    \E e \in DOMAIN eng :
        /\ eng[e].pc = "select"
        /\ eng' = IF COLS_LIST_6 = PlayerIdAttachedColumn(eng[e].provider)
                  THEN [eng EXCEPT ![e].pc = "done", ![e].columns = COLS_LIST_6]
                  ELSE [eng EXCEPT ![e].pc = "error"]
        /\ UNCHANGED <<inputs, calls, evOut, store, starts, refine_outcome, pc, idx, err,
                       catalogue, COLS_LIST_6, besidesEng>>

NextEngines ==
    \/ EngAggregate
    \/ EngSetCols
    \/ EngSelectCols

SpecEngines == InitEngines /\ [][NextEngines]_vars

\* --------------------------------------- the coarse estimate on its own
\* shifts of the timestamps, in 1/TsDen frame: by whole frames, by a fraction
\* of a frame, forwards and backwards
ShiftChoices ==
    { -(KickFrame + 2) * TsDen, -3 * TsDen, -1, 1, 2 * TsDen + 1, 5 * TsDen }

\* the frames of the passes of player 1, under a period start of 0
CoarsePassFrames == { KickFrame - 20, KickFrame - 4, KickFrame, KickFrame + 5 }

\* OffsetSyncManager(events, formatted_data_manager) on the passes of player 1
\* in period 1: a group of six and a group of five
InitCoarse ==
    /\ event_provider = "statsbomb"
    /\ apply_refine = TRUE
    /\ periods = <<1>>
    /\ fftTie = "first"
    /\ \E a, b \in CoarsePassFrames :
          evIn = [i \in 1 .. (MIN_PASS_PER_PERIOD_12 + 1) |->
                    Event(1, (IF i <= 6 THEN a ELSE b) * TsDen, "pass", 1, 101,
                          TRUE, FALSE, OFFSET_REFINE)]
    /\ \E c \in {KickFrame - 10, KickFrame, NFrames - 1} :
          StoreInit(RunCol(c, 1, 20, 40), [f \in Frames |-> TRUE], AccCol(c, 80, 10))
    /\ EventsInit
    /\ starts = <<>>
    /\ pc = "sync"
    /\ idx = 1
    /\ err = "none"
    /\ tracking_data = [f \in Frames |-> [event |-> 0, kinematics |-> FALSE]]
    /\ match_data = [team \in {"home_team", "away_team"} |-> [team_type |-> "absent"]]
    /\ run = 1
    /\ first = <<>>
    /\ COLS_LIST_6 = <<"is_not_matched_has_provider_player_id">>
    /\ IdleBesidesCoarse
    /\ \E dt \in ShiftChoices :
          coarse = [dt |-> dt, pc |-> "base",
                    base |-> [err |-> "none", value |-> 0],
                    shifted |-> [err |-> "none", value |-> 0]]

\* what a call of get_first_period_start_estimation gives: a value or an error
CoarseResult(period) ==
    IF CoarseError(period) # "none"
    THEN [err |-> CoarseError(period), value |-> 0]
    ELSE [err |-> "none", value |-> get_first_period_start_estimation(period)]

\* get_first_period_start_estimation(1) on the events as given
CoarseBase ==
    /\ coarse # <<>>
    /\ coarse.pc = "base"
    /\ \E r \in { CoarseResult(1) } :
          coarse' = [coarse EXCEPT !.base = r, !.pc = "shift"]
    /\ UNCHANGED <<inputs, calls, evOut, store, starts, refine_outcome, pc, idx, err,
                   catalogue, COLS_LIST_6, besidesCoarse>>

\* the same events with every timestamp of the period shifted by dt
ShiftTimestamps ==
    /\ coarse # <<>>
    /\ coarse.pc = "shift"
    /\ evIn' = [i \in Events |-> [evIn[i] EXCEPT !.ts = @ + coarse.dt]]
    /\ coarse' = [coarse EXCEPT !.pc = "shifted"]
    /\ UNCHANGED <<periods, apply_refine, event_provider, fftTie, built, calls, evOut,
                   store, starts, refine_outcome, pc, idx, err, catalogue, COLS_LIST_6, besidesCoarse>>

\* get_first_period_start_estimation(1) on the shifted events
CoarseShifted ==
    /\ coarse # <<>>
    /\ coarse.pc = "shifted"
    /\ \E r \in { CoarseResult(1) } :
          coarse' = [coarse EXCEPT !.shifted = r, !.pc = "done"]
    /\ UNCHANGED <<inputs, calls, evOut, store, starts, refine_outcome, pc, idx, err,
                   catalogue, COLS_LIST_6, besidesCoarse>>

NextCoarse ==
    \/ CoarseBase
    \/ ShiftTimestamps
    \/ CoarseShifted

SpecCoarse == InitCoarse /\ [][NextCoarse]_vars

\* ------------------------------------- the physical criterion on its own
\* 10.5 m/s, in cm/s
IMPOSSIBLE_SPEED_TH == 1050

\* speeds and accelerations of a cell after np.round(..., 2), in cm/s and
\* cm/s^2; NaN where compute_speeds_acc pads or the player has no sample
KinSpeeds == {NaN, 0, 1, 500, 716, 1049, 1050, 1051, 1432, 1433}
KinAccs == {NaN, -2000, -1, 0, 454, 455, 456, 909, 910, 911}

\* the pipeline is not under study
PipelineAside ==
    /\ PipelineIdle
    /\ COLS_LIST_6 = <<"is_not_matched_has_provider_player_id">>

\* a cell of ply_formatted_data_speed_acc as set_speed_acc_formatted_data has
\* it before the criterion: <<speed_norm, vx, vy, acc>>
InitKin ==
    /\ PipelineAside
    /\ IdleBesidesPhys
    /\ \E speed \in KinSpeeds, acc \in KinAccs :
          phys = [pc |-> "rounded", raw |-> <<speed, speed, IF speed = NaN THEN NaN ELSE 0, acc>>,
                 cell |-> <<speed, speed, IF speed = NaN THEN NaN ELSE 0, acc>>]

\* a criterion that tests the speed alone
mask_impossible_speed_only(cell) ==
    cell[1] # NaN /\ cell[1] > IMPOSSIBLE_SPEED_TH

\* (physical_criterion <= 0) + (speed > IMPOSSIBLE_SPEED_TH), a comparison with
\* NaN being False; the criterion -0.6354 * speed + 9.1 - acc is held times 10^6
physical_criterion_mask(cell) ==
    \/ /\ cell[1] # NaN
       /\ cell[4] # NaN
       /\ -6354 * cell[1] + 9100000 - 10000 * cell[4] <= 0
    \/ /\ cell[1] # NaN
       /\ cell[1] > IMPOSSIBLE_SPEED_TH

\* apply_physical_criterion on one cell
apply_physical_criterion(cell) ==
    IF physical_criterion_mask(cell) THEN <<NaN, NaN, NaN, NaN>> ELSE cell

\* set_speed_acc_formatted_data, its last step
ApplyPhysicalCriterion ==
    /\ phys # <<>>
    /\ phys.pc = "rounded"
    /\ phys' = [phys EXCEPT !.cell = apply_physical_criterion(phys.raw), !.pc = "built"]
    /\ UNCHANGED <<inputs, calls, evOut, store, starts, refine_outcome, pc, idx, err,
                   catalogue, COLS_LIST_6, besidesPhys>>

NextKin == ApplyPhysicalCriterion

SpecKin == InitKin /\ [][NextKin]_vars

\* ------------------------------------------------- the provider adapters
\* opta.py's and wyscout.py's OFFSET_REFINE
OFFSET_REFINE_10 == 10

\* raw events of a provider: the action type (impect), type_id (opta),
\* primary type (wyscout) or type.id (statsbomb), whether the secondary types
\* hold a pass (wyscout), whether the body part is the head (impect), and the
\* period, 5 standing for the penalty shootout
RawEvents(provider) ==
    LET types == CASE provider = "impect" -> {"PASS", "SHOT", "RECEPTION", "KICK_OFF"}
                   [] provider = "opta" -> {"1", "2", "13", "16", "7", "34"}
                   [] provider = "wyscout" -> {"pass", "shot", "interception", "game_interruption"}
                   [] provider = "statsbomb" -> {"30", "16", "42"}
    IN  { [type |-> t, secondary_pass |-> sp, head |-> h, period |-> p] :
            t \in types,
            sp \in (IF provider = "wyscout" THEN BOOLEAN ELSE {FALSE}),
            h \in (IF provider = "impect" THEN BOOLEAN ELSE {FALSE}),
            p \in {1, 5} }

\* the events standardize_events passes over
IgnoredRawEvent(provider, raw) ==
    \/ raw.period \notin 1..4
    \/ provider = "opta" /\ raw.type = "34"

\* get_generic_event_type of the four adapters
get_generic_event_type(provider, raw) ==
    CASE provider = "impect" ->
           IF raw.type = "PASS" THEN "pass" ELSE IF raw.type = "SHOT" THEN "shot" ELSE "generic"
      [] provider = "opta" ->
           IF raw.type \in {"1", "2"} THEN "pass"
           ELSE IF raw.type \in {"13", "14", "15", "16"} THEN "shot" ELSE "generic"
      [] provider = "wyscout" ->
           IF raw.type = "pass" \/ (raw.type = "interception" /\ raw.secondary_pass) THEN "pass"
           ELSE IF raw.type = "shot" THEN "shot" ELSE "generic"
      [] provider = "statsbomb" ->
           IF raw.type = "30" THEN "pass" ELSE IF raw.type = "16" THEN "shot" ELSE "generic"

\* a force_to_refine that does not look at the action type
force_to_refine_any_action(provider, raw, previous_event_type_name) ==
    /\ provider = "impect"
    /\ previous_event_type_name \in {"RECEPTION", "LOOSE_BALL_REGAIN", "INTERCEPTION"}
    /\ ~raw.head

\* impect.py's force_to_refine; the other adapters leave Event's default, False
force_to_refine(provider, raw, previous_event_type_name) ==
    /\ provider = "impect"
    /\ raw.type = "PASS"
    /\ previous_event_type_name \in {"RECEPTION", "LOOSE_BALL_REGAIN", "INTERCEPTION"}
    /\ ~raw.head

\* the Event standardize_events builds, and its offset_refine by the adapter's
\* get_offset_refine
StandardizedEvent(provider, raw, previous_event_type_name) ==
    LET kind == get_generic_event_type(provider, raw)
        to_refine == kind \in {"pass", "shot"}
        force == force_to_refine(provider, raw, previous_event_type_name)
    IN  [generic_event_type |-> kind,
         event_type_name |-> raw.type,
         to_refine |-> to_refine,
         force_to_refine |-> force,
         offset_refine |->
            IF provider = "impect" THEN get_offset_refine(to_refine, force)
            ELSE IF ~to_refine THEN None
            ELSE IF provider \in {"opta", "wyscout"} THEN OFFSET_REFINE_10
            ELSE OFFSET_REFINE]

\* an adapter over two raw events, before standardize_events
InitAdapter ==
    /\ PipelineAside
    /\ IdleBesidesAdapter
    /\ \E provider \in Providers :
       \E r1 \in RawEvents(provider), r2 \in RawEvents(provider) :
          adapter = [provider |-> provider, raw_events |-> <<r1, r2>>, i |-> 1,
                     previous_event_type_name |-> "None",
                     standardized_events |-> <<>>]

\* standardize_events, one raw event of its loop
StandardizeEvent ==
    /\ adapter # <<>>
    /\ adapter.i <= Len(adapter.raw_events)
    /\ LET raw == adapter.raw_events[adapter.i]
       IN  adapter' =
             IF IgnoredRawEvent(adapter.provider, raw)
             THEN [adapter EXCEPT !.i = @ + 1]
             ELSE [adapter EXCEPT
                     !.i = @ + 1,
                     !.previous_event_type_name =
                         IF adapter.provider = "impect" THEN raw.type ELSE @,
                     !.standardized_events =
                         Append(@, StandardizedEvent(adapter.provider, raw,
                                                     adapter.previous_event_type_name))]
    /\ UNCHANGED <<inputs, calls, evOut, store, starts, refine_outcome, pc, idx, err,
                   catalogue, COLS_LIST_6, besidesAdapter>>

NextAdapter == StandardizeEvent

SpecAdapter == InitAdapter /\ [][NextAdapter]_vars

\* ---------------------------------------------- the attacking-side manager
LEFT_TO_RIGHT == "left_to_right"
RIGHT_TO_LEFT == "right_to_left"
OPP_TEAM_SIDE_MAPPING == (LEFT_TO_RIGHT :> RIGHT_TO_LEFT) @@ (RIGHT_TO_LEFT :> LEFT_TO_RIGHT)

\* a coordinate of an event: <<v>> for the number v / 1000 metres, <<>> for
\* the string 'unknown'
Unknown == <<>>

\* events of a two-period match: by the home team, the away team or a team the
\* adapter did not resolve (team_id None); coordinates as the adapters scale
\* them, with more than two decimals, none half-way between two hundredths
ProjEvents ==
    { [period |-> p, team_id |-> t, x |-> x, y |-> y] :
        p \in {1, 2}, t \in {"home", "away", "None"},
        x \in {Unknown, <<10000>>, <<10004>>, <<-10006>>},
        y \in {Unknown, <<5000>>, <<-3337>>} }

\* the catalogue's home_team_side, <<>> when it has none
HomeTeamSides ==
    {<<>>} \cup { <<s1, s2>> : s1 \in {LEFT_TO_RIGHT, RIGHT_TO_LEFT}, s2 \in {LEFT_TO_RIGHT, RIGHT_TO_LEFT} }

\* np.nanmean of the x of the home and of the away players over a period, in
\* decimetres; NaN where no player of the team was tracked in the period
AvgXPairs == { <<-50, 50>>, <<50, -50>>, <<0, 0>>, <<NaN, 50>> }

InitProj ==
    /\ PipelineAside
    /\ IdleBesidesProj
    /\ \E sides \in HomeTeamSides, a1 \in AvgXPairs, a2 \in AvgXPairs, e \in ProjEvents :
          /\ sides # <<>> => (a1 = <<-50, 50>> /\ a2 = <<50, -50>>)
          /\ proj = [pc |-> "init", home_team_side |-> sides, avg_x_pos |-> <<a1, a2>>,
                     event |-> e, team_id_to_attacking_side |-> <<>>,
                     projected |-> <<>>]

\* get_team_id_to_attacking_side: by the catalogue when it declares the sides,
\* else by the mean x positions, a comparison with NaN being False
get_team_id_to_attacking_side(home_team_side, avg_x_pos) ==
    [period \in 1..2 |->
        LET side == IF home_team_side # <<>> THEN home_team_side[period]
                    ELSE IF /\ avg_x_pos[period][1] # NaN
                            /\ avg_x_pos[period][2] # NaN
                            /\ avg_x_pos[period][1] < avg_x_pos[period][2]
                         THEN LEFT_TO_RIGHT
                         ELSE RIGHT_TO_LEFT
        IN  [home |-> side, away |-> OPP_TEAM_SIDE_MAPPING[side]]]

\* team_id_to_attacking_side[event.period].get(event.team_id)
SideOf(sides, event) ==
    IF event.team_id \in DOMAIN sides[event.period]
    THEN sides[event.period][event.team_id]
    ELSE "None"

\* a projection that keeps the sign whatever the side
get_event_coord_not_reflected(sides, event, coord) ==
    IF event.x = Unknown \/ event.y = Unknown THEN Unknown
    ELSE IF SideOf(sides, event) = RIGHT_TO_LEFT THEN <<PyRound(coord[1], 10)>>
    ELSE IF SideOf(sides, event) = LEFT_TO_RIGHT THEN <<PyRound(coord[1], 10)>>
    ELSE Unknown

\* get_event_x on event.x and get_event_y on event.y: round(float(-v), 2) or
\* round(float(v), 2), held in hundredths
get_event_coord(sides, event, coord) ==
    IF event.x = Unknown \/ event.y = Unknown THEN Unknown
    ELSE IF SideOf(sides, event) = RIGHT_TO_LEFT THEN <<PyRound(-coord[1], 10)>>
    ELSE IF SideOf(sides, event) = LEFT_TO_RIGHT THEN <<PyRound(coord[1], 10)>>
    ELSE Unknown

\* AttackingSideManager.__init__
ResolveSides ==
    /\ proj # <<>>
    /\ proj.pc = "init"
    /\ proj' = [proj EXCEPT
                  !.pc = "resolved",
                  !.team_id_to_attacking_side =
                      get_team_id_to_attacking_side(proj.home_team_side, proj.avg_x_pos)]
    /\ UNCHANGED <<inputs, calls, evOut, store, starts, refine_outcome, pc, idx, err,
                   catalogue, COLS_LIST_6, besidesProj>>

\* get_freeze_frame_format, the projected coordinates of an event
ProjectEvent ==
    /\ proj # <<>>
    /\ proj.pc = "resolved"
    /\ proj' = [proj EXCEPT
                  !.pc = "projected",
                  !.projected =
                      <<get_event_coord(proj.team_id_to_attacking_side, proj.event, proj.event.x),
                        get_event_coord(proj.team_id_to_attacking_side, proj.event, proj.event.y)>>]
    /\ UNCHANGED <<inputs, calls, evOut, store, starts, refine_outcome, pc, idx, err,
                   catalogue, COLS_LIST_6, besidesProj>>

NextProj == ResolveSides \/ ProjectEvent

SpecProj == InitProj /\ [][NextProj]_vars

\* ------------------------------------------------ the report by event type
\* rows of report_by_event (get_event_info) of impect events: KICK_OFF and OUT
\* are in NO_IS_MATCHED_APPLICABLE_LIST
ReportRows ==
    { [event_type |-> t, is_matched |-> m, is_player_detected |-> d,
       is_matched_applicable |-> t \notin {"KICK_OFF", "OUT"}] :
        t \in {"PASS", "KICK_OFF", "OUT"}, m \in BOOLEAN, d \in BOOLEAN }

InitReport ==
    /\ PipelineAside
    /\ IdleBesidesReport
    /\ \E r1 \in ReportRows, r2 \in ReportRows, r3 \in ReportRows :
          report = [pc |-> "by_event", report_by_event |-> <<r1, r2, r3>>,
                    report_by_event_type |-> <<>>]

\* groupby(event_type).sum() over the rows given: the sum of a column over the
\* rows of an event type counts the rows where the column holds, every row
\* for nb_events
GroupBySum(rows) ==
    [t \in { rows[k].event_type : k \in DOMAIN rows } |->
        LET ColumnSum(Holds(_)) ==
                Cardinality({ k \in DOMAIN rows : rows[k].event_type = t /\ Holds(rows[k]) })
            NbEventsCol(r) == TRUE
            IsMatched(r) == r.is_matched
            IsNotMatched(r) == ~r.is_matched
            IsMatchedDetected(r) == r.is_matched /\ r.is_player_detected
            IsNotMatchedDetected(r) == ~r.is_matched /\ r.is_player_detected
            Applicable(r) == r.is_matched_applicable
        IN  [nb_events |-> ColumnSum(NbEventsCol),
             is_matched |-> ColumnSum(IsMatched),
             is_not_matched |-> ColumnSum(IsNotMatched),
             is_matched_is_player_detected |-> ColumnSum(IsMatchedDetected),
             is_not_matched_is_player_detected |-> ColumnSum(IsNotMatchedDetected),
             is_matched_applicable |-> ColumnSum(Applicable) > 0]]

\* get_report_by_event_type: every row of the report by event is grouped
GetReportByEventType ==
    /\ report # <<>>
    /\ report.pc = "by_event"
    /\ report' = [report EXCEPT !.pc = "by_event_type",
                                !.report_by_event_type = GroupBySum(report.report_by_event)]
    /\ UNCHANGED <<inputs, calls, evOut, store, starts, refine_outcome, pc, idx, err,
                   catalogue, COLS_LIST_6, besidesReport>>

NextReport == GetReportByEventType

SpecReport == InitReport /\ [][NextReport]_vars

\* ------------------------------------------------------ the warning manager
ACCEPTABLE_NEGATIVE_TH == -100

\* refined_period_start_frame: a start for each period of the tracking, which
\* holds any of the periods 1 to 4
RefinedPeriodStarts ==
    UNION { [ps -> {ACCEPTABLE_NEGATIVE_TH - 1, ACCEPTABLE_NEGATIVE_TH, 0}] :
              ps \in (SUBSET (1..4)) \ {{}} }

InitWarn ==
    /\ PipelineAside
    /\ IdleBesidesWarn
    /\ \E s \in RefinedPeriodStarts :
          warn = [pc |-> "synchronized", refined_period_start_frame |-> s,
                  warned |-> FALSE, err |-> "none"]

\* warning_negative_period_start_estimation: refined_period_start_frame[1] is
\* read, a KeyError when the tracking has no period 1
WarningNegativePeriodStartEstimation ==
    /\ warn # <<>>
    /\ warn.pc = "synchronized"
    /\ warn' =
         IF 1 \notin DOMAIN warn.refined_period_start_frame
         THEN [warn EXCEPT !.pc = "checked", !.err = "KeyError"]
         ELSE [warn EXCEPT !.pc = "checked",
                           !.warned = warn.refined_period_start_frame[1] < ACCEPTABLE_NEGATIVE_TH]
    /\ UNCHANGED <<inputs, calls, evOut, store, starts, refine_outcome, pc, idx, err,
                   catalogue, COLS_LIST_6, besidesWarn>>

NextWarn == WarningNegativePeriodStartEstimation

SpecWarn == InitWarn /\ [][NextWarn]_vars

\* ------------------------------------------------ the fine step on its own
\* coarse estimates of the start of period 1
FineEstimates == { -(KickFrame + 5), -10, 0, 3 }

\* the frames of the two passes of player 1, under a period start of 0
FinePassFrames == { 5, KickFrame - 10, KickFrame, NFrames - 7 }

\* the distances of slot 0: close to the ball on a run of rows, or on none
FineDistCols ==
    { RunCol(a, len, 20, base) :
        a \in {8, KickFrame, NFrames - 2}, len \in {0, 1, 3}, base \in {40, NaN} }

\* OffsetSyncManager(events, formatted_data_manager) on two passes of player 1
\* in period 1, get_first_period_start_estimation having returned
InitFine ==
    /\ event_provider = "statsbomb"
    /\ apply_refine = TRUE
    /\ periods = <<1>>
    /\ fftTie = "first"
    /\ \E a, b \in FinePassFrames :
          evIn = <<Event(1, a * TsDen, "pass", 1, 101, TRUE, FALSE, OFFSET_REFINE),
                   Event(1, b * TsDen + 1, "pass", 1, 101, TRUE, FALSE, OFFSET_REFINE)>>
    /\ \E dcol \in FineDistCols :
          StoreInit(dcol, [f \in Frames |-> TRUE], AccCol(KickFrame, 80, 10))
    /\ EventsInit
    /\ starts = <<>>
    /\ pc = "sync"
    /\ idx = 1
    /\ err = "none"
    /\ tracking_data = [f \in Frames |-> [event |-> 0, kinematics |-> FALSE]]
    /\ match_data = [team \in {"home_team", "away_team"} |-> [team_type |-> "absent"]]
    /\ run = 1
    /\ first = <<>>
    /\ COLS_LIST_6 = <<"is_not_matched_has_provider_player_id">>
    /\ IdleBesidesFine
    /\ \E c \in FineEstimates :
          fine = [pc |-> "estimated", estimated_period_start_frame |-> c,
                  matched_passes_list |-> <<>>, refined |-> c]

\* get_matched_passes_list: the matched frame of each event of the list
GetMatchedPassesList ==
    /\ fine # <<>>
    /\ fine.pc = "estimated"
    /\ \E c \in { fine.estimated_period_start_frame } :
          fine' = [fine EXCEPT
                     !.pc = "matched",
                     !.matched_passes_list =
                         [i \in MatchedPasses(1, c) |-> MatchedFrame(i, c)]]
    /\ UNCHANGED <<inputs, calls, evOut, store, starts, refine_outcome, pc, idx, err,
                   catalogue, COLS_LIST_6, besidesFine>>

\* get_refined_period_start, after the two calls above
GetRefinedPeriodStart ==
    /\ fine # <<>>
    /\ fine.pc = "matched"
    /\ fine' = [fine EXCEPT
                  !.pc = "refined",
                  !.refined = FineStart(1, fine.estimated_period_start_frame)]
    /\ UNCHANGED <<inputs, calls, evOut, store, starts, refine_outcome, pc, idx, err,
                   catalogue, COLS_LIST_6, besidesFine>>

NextFine == GetMatchedPassesList \/ GetRefinedPeriodStart

SpecFine == InitFine /\ [][NextFine]_vars

\* ------------------------------------------------ the freeze-frame stream
\* the rows of a short tracking_data
FrzRows == {0, 1, 2}

\* events after the matching: event_id, skc_frame (before the tracking, on one
\* of its rows or one past its end), player_id and flags
FrzEvents(event_id) ==
    { [event_id |-> event_id, skc_frame |-> fr, player_id |-> pl, is_matched |-> m,
       is_player_detected |-> m /\ pl = 1] :
        fr \in {-1, 0, 1, 3}, pl \in {1, None}, m \in BOOLEAN }

\* a record of the tracking the events did not touch yet
BareRecord(f) ==
    [frame |-> f, event_id |-> None, player_id |-> None, is_matched |-> FALSE,
     is_player_detected |-> FALSE]

InitFrz ==
    /\ PipelineAside
    /\ IdleBesidesFrz
    /\ \E e1 \in FrzEvents(11), e2 \in FrzEvents(12), e3 \in FrzEvents(13) :
          frz = [events |-> <<e1, e2, e3>>, i |-> 1,
                 tracking_data |-> [f \in FrzRows |-> BareRecord(f)],
                 freeze_frame_format_list |-> <<>>]

\* a record that keeps the keys an earlier event wrote
EventKeysKept(record, event) ==
    IF record.event_id # None THEN record
    ELSE [record EXCEPT !.event_id = event.event_id,
                        !.player_id = event.player_id,
                        !.is_matched = event.is_matched,
                        !.is_player_detected = event.is_player_detected]

\* get_freeze_frame_format: the keys of the event written on the record
EventKeysWritten(record, event) ==
    [record EXCEPT !.event_id = event.event_id,
                   !.player_id = event.player_id,
                   !.is_matched = event.is_matched,
                   !.is_player_detected = event.is_player_detected]

\* get_reports_and_freeze_frame_format, one event of its loop: the record of
\* the frame is written, and a deep copy of it appended
GetFreezeFrameFormat ==
    /\ frz # <<>>
    /\ frz.i <= Len(frz.events)
    /\ LET event == frz.events[frz.i]
           frame == event.skc_frame
       IN  IF frame >= 0 /\ frame < Cardinality(FrzRows)
           THEN \E record \in { EventKeysWritten(frz.tracking_data[frame], event) } :
                   frz' = [frz EXCEPT
                             !.i = @ + 1,
                             !.tracking_data = [@ EXCEPT ![frame] = record],
                             !.freeze_frame_format_list = Append(@, record)]
           ELSE frz' = [frz EXCEPT !.i = @ + 1]
    /\ UNCHANGED <<inputs, calls, evOut, store, starts, refine_outcome, pc, idx, err,
                   catalogue, COLS_LIST_6, besidesFrz>>

NextFrz == GetFreezeFrameFormat

SpecFrz == InitFrz /\ [][NextFrz]_vars

\* ------------------------------------------------------------ properties
\* the stamping loop is over and nothing ran after it
StampingOver == pc = "sync" /\ idx > Len(periods)

\* the refinement and the matching are over (or were skipped)
AfterSynchronization == pc \in {"match", "assemble", "done"}

\* C1: after the stamping phase every event of a synchronized period has
\* provider_frame = s + round(timestamp * FPS), the integer nearest to
\* timestamp * FPS being stated without PyRound, and skc_frame = provider_frame
C1_FrameStamping ==
    \A i \in Events :
        evIn[i].period \in DOMAIN starts =>
            /\ provider_frame[i] # NoAttr
            /\ 2 * Abs(TsDen * (provider_frame[i] - starts[evIn[i].period]) - evIn[i].ts)
                   <= TsDen
            /\ (StampingOver => skc_frame[i] = provider_frame[i])

\* C1 witness: the stamping is over with a period start other than 0 and a
\* timestamp that falls between two frames
C1_Witness ==
    /\ StampingOver
    /\ \E i \in Events :
          /\ evIn[i].period \in DOMAIN starts
          /\ starts[evIn[i].period] # 0
          /\ evIn[i].ts % TsDen # 0

\* C5: once the loop has gone through a period in which no player of the match
\* has enough passes, the period start is DEFAULT_START[period] and the events
\* of the period are stamped with it
C5_DegenerateUsesDefault ==
    \A k \in 1 .. Len(periods) :
        (CoarsePlayers(periods[k]) = {} /\ (pc # "sync" \/ idx > k)) =>
            /\ periods[k] \in DOMAIN starts
            /\ starts[periods[k]] = DEFAULT_START(periods[k])
            /\ \A i \in Events :
                  evIn[i].period = periods[k] =>
                      provider_frame[i]
                          = get_event_frame(evIn[i].ts, DEFAULT_START(periods[k]))

\* C6 as stated: when the pipeline ended without an error, no skc_frame is
\* negative
C6_SkcFrameNonNegative ==
    pc = "done" => \A i \in Events : skc_frame[i] >= 0

\* C6 amended: after synchronization a skc_frame is >= 0 unless the event was
\* not refined and kept a negative provider_frame
C6_SkcFrameNonNegativeOrUnrefined ==
    AfterSynchronization =>
        \A i \in Events :
            \/ skc_frame[i] >= 0
            \/ /\ skc_frame[i] = provider_frame[i]
               /\ refine_outcome[i] # "refined"

\* C6 witness: the pipeline ended without error, event_refinement ran on some
\* event, and an event has a negative skc_frame
C6_Witness ==
    /\ pc = "done"
    /\ \E i \in Events : skc_frame[i] # NoAttr /\ skc_frame[i] < 0
    /\ \E j \in Events : refine_outcome[j] \notin {"none", "skipped", "error"}

\* C9: at the end of the pipeline an event whose player is null or not of the
\* match has is_matched and is_player_detected false, has_provider_player_id
\* true iff its provider player id is not null, and skc_frame = provider_frame
C9_UnrosteredEvent ==
    pc = "done" =>
        \A i \in Events :
            ~ IsRostered(evIn[i].player_id) =>
                /\ is_matched[i] = FALSE
                /\ is_player_detected[i] = FALSE
                /\ has_provider_player_id[i] = (evIn[i].provider_player_id # None)
                /\ skc_frame[i] = provider_frame[i]

\* C9 witness: the pipeline ended, the refinement ran, and a pass of a null
\* player without provider id is in the list
C9_Witness ==
    /\ pc = "done"
    /\ apply_refine
    /\ \E i \in Events :
          /\ evIn[i].player_id = None
          /\ evIn[i].provider_player_id = None
          /\ evIn[i].to_refine

\* C10: once the reports are assembled, the distances and the player
\* kinematics of the store are as they were built
C10_StoreReadOnly ==
    pc = "done" => (dist = built.dist /\ ply_kin = built.ply_kin)

\* the matching loop has gone through event i without raising
Matched(i) == (pc = "match" /\ idx > i) \/ pc \in {"assemble", "done"}

\* C2: a matched event of a player of the match has is_matched true iff some
\* frame f with skc_frame - OFFSET <= f < skc_frame + OFFSET and 0 <= f < F
\* has a distance, as the store was built, that is not NaN and <= 3.5 m
C2_IsMatchedIffCloseFrameInWindow ==
    \A i \in Events :
        (IsRostered(evIn[i].player_id) /\ Matched(i)) =>
            is_matched[i] =
                (\E f \in Frames :
                    /\ skc_frame[i] - OFFSET <= f
                    /\ f < skc_frame[i] + OFFSET
                    /\ built.dist[f][ply_id_to_idx[evIn[i].player_id]] # NaN
                    /\ built.dist[f][ply_id_to_idx[evIn[i].player_id]] <= TH_IS_MATCHED)

\* C7: once the matching loop has reached an event whose skc_frame is F, no
\* error is raised and the three flags of the event are false
C7_FrameOnePastTheEnd ==
    \A i \in Events :
        (skc_frame[i] = NFrames /\ (pc \notin {"sync", "refine", "match"} \/ (pc = "match" /\ idx > i))) =>
            /\ pc # "error"
            /\ is_matched[i] = FALSE
            /\ is_player_detected[i] = FALSE
            /\ frame_tracking_data_available[i] = FALSE

\* C8: a matched event of a player p of the match has is_player_detected equal
\* to detected[skc_frame, p] when 0 <= skc_frame < F, and false otherwise
C8_IsPlayerDetectedInRange ==
    \A i \in Events :
        (IsRostered(evIn[i].player_id) /\ Matched(i)) =>
            is_player_detected[i] =
                (/\ skc_frame[i] \in Frames
                 /\ detected[skc_frame[i]][ply_id_to_idx[evIn[i].player_id]])

\* the ways event_refinement returns without assigning skc_frame
AbortKinds == {"empty_window", "low_detection", "no_close", "acc_masked", "low_peak"}

\* events i - 1, i, i + 1 are of one period and the refinement loop takes each
RefineEligibleTriple(i) ==
    /\ i - 1 \in Events
    /\ i + 1 \in Events
    /\ evIn[i - 1].period = evIn[i].period
    /\ evIn[i + 1].period = evIn[i].period
    /\ \A j \in {i - 1, i, i + 1} : IsRefineCandidate(j)

\* C3 as stated: after the refine phase, skc_frame(i) lies strictly between
\* the provider frames of its neighbours, for consecutive refine-eligible
\* events of one period
C3_NeverCrossesNeighbours ==
    AfterSynchronization =>
        \A i \in Events :
            RefineEligibleTriple(i) =>
                /\ provider_frame[i - 1] < skc_frame[i]
                /\ skc_frame[i] < provider_frame[i + 1]

\* C3 amended: the same, for the events whose skc_frame the refinement
\* assigned and for those whose provider frame already lies strictly between
\* the provider frames of its neighbours
C3_RefinedNeverCrossesNeighbours ==
    AfterSynchronization =>
        \A i \in Events :
            (/\ RefineEligibleTriple(i)
             /\ \/ refine_outcome[i] = "refined"
                \/ /\ provider_frame[i - 1] < provider_frame[i]
                   /\ provider_frame[i] < provider_frame[i + 1]) =>
                /\ provider_frame[i - 1] < skc_frame[i]
                /\ skc_frame[i] < provider_frame[i + 1]

\* C3 witness: the refinement moved the middle event of an eligible triple
C3_Witness ==
    /\ AfterSynchronization
    /\ \E i \in Events :
          /\ RefineEligibleTriple(i)
          /\ refine_outcome[i] = "refined"
          /\ skc_frame[i] # provider_frame[i]

\* C4: an event on which event_refinement returned early has skc_frame equal
\* to its provider_frame, and the loop raised nothing on it
C4_AbortKeepsProviderFrame ==
    \A i \in Events :
        refine_outcome[i] \in AbortKinds =>
            /\ skc_frame[i] = provider_frame[i]
            /\ ~ (pc = "error" /\ idx = i)

\* C4 witness: the loop is over, event_refinement returned early on one event
\* for a low peak and on another for an empty window
C4_Witness ==
    /\ pc = "match"
    /\ \E i, j \in Events :
          /\ refine_outcome[i] = "low_peak"
          /\ refine_outcome[j] = "empty_window"

\* C11: once apply_synchronization_process has returned, the tracking records
\* and the match catalogue hold the keys and values they held when they were
\* passed to the manager
C11_InputsUnchanged ==
    pc = "done" =>
        /\ tracking_data = [f \in Frames |-> [event |-> 0, kinematics |-> FALSE]]
        /\ match_data = [team \in {"home_team", "away_team"} |-> [team_type |-> "absent"]]

\* C12: when a second call of apply_synchronization_process on the same
\* manager has returned, every event has the provider_frame, skc_frame and
\* flags that the first call gave it
C12_SecondCallSameOutputs ==
    (pc = "done" /\ run = 2) => evOut = first

\* C13: under every interleaving of two engines, no engine fails and an engine
\* that has built its report by event type has the columns it has when it
\* runs alone
C13_EnginesIndependent ==
    \A e \in DOMAIN eng :
        /\ eng[e].pc # "error"
        /\ eng[e].pc = "done" => eng[e].columns = PlayerIdAttachedColumn(eng[e].provider)

\* C14: when the coarse estimate of the events as given exists, the coarse
\* estimate of the events shifted by dt exists too and differs from it by
\* round(dt * FPS) frames (in either direction), within one frame
C14_CoarseTranslationEquivariant ==
    (coarse # <<>> /\ coarse.pc = "done" /\ coarse.base.err = "none") =>
        /\ coarse.shifted.err = "none"
        /\ \/ Abs(coarse.shifted.value - coarse.base.value - PyRound(coarse.dt, TsDen)) <= 1
           \/ Abs(coarse.shifted.value - coarse.base.value + PyRound(coarse.dt, TsDen)) <= 1

\* C15 as stated: in the built store a finite speed is at most 10.5 m/s and
\* comes with an acceleration for which -0.6354 * speed + 9.1 - acc > 0
C15_PhysicalCriterion ==
    (phys # <<>> /\ phys.pc = "built" /\ phys.cell[1] # NaN) =>
        /\ phys.cell[1] <= IMPOSSIBLE_SPEED_TH
        /\ phys.cell[4] # NaN
        /\ -6354 * phys.cell[1] + 9100000 - 10000 * phys.cell[4] > 0

\* C15 amended: in the built store a finite speed is at most 10.5 m/s and,
\* when the acceleration is finite too, -0.6354 * speed + 9.1 - acc > 0
C15_PhysicalCriterionWhereAccKnown ==
    (phys # <<>> /\ phys.pc = "built" /\ phys.cell[1] # NaN) =>
        /\ phys.cell[1] <= IMPOSSIBLE_SPEED_TH
        /\ phys.cell[4] # NaN => -6354 * phys.cell[1] + 9100000 - 10000 * phys.cell[4] > 0

\* C15 witness: a cell was masked for its envelope, its speed being possible
C15_Witness ==
    /\ phys # <<>>
    /\ phys.pc = "built"
    /\ phys.raw[1] # NaN /\ phys.raw[1] <= IMPOSSIBLE_SPEED_TH /\ phys.raw[4] # NaN
    /\ phys.cell[1] = NaN

\* C16: for every canonical event of any adapter, to_refine holds iff the
\* generic kind is pass or shot, offset_refine is null iff to_refine is false,
\* offset_refine is 15 iff force_to_refine, and force_to_refine implies to_refine
C16_RefineAttributes ==
    adapter # <<>> =>
        \A k \in DOMAIN adapter.standardized_events :
            LET e == adapter.standardized_events[k]
            IN  /\ e.to_refine <=> e.generic_event_type \in {"pass", "shot"}
                /\ e.offset_refine = None <=> ~e.to_refine
                /\ e.offset_refine = OFFSET_FORCE_REFINE <=> e.force_to_refine
                /\ e.force_to_refine => e.to_refine

\* C16 witness: an adapter gave a forced pass after an event that is not
\* refined, all its raw events read
C16_Witness ==
    /\ adapter # <<>>
    /\ adapter.i > Len(adapter.raw_events)
    /\ Len(adapter.standardized_events) = 2
    /\ ~adapter.standardized_events[1].to_refine
    /\ adapter.standardized_events[2].force_to_refine
    /\ adapter.standardized_events[2].offset_refine = OFFSET_FORCE_REFINE

\* the sides are resolved and the two teams attack opposite ways in each period
OppositeSides ==
    proj.pc # "init" =>
        \A period \in DOMAIN proj.team_id_to_attacking_side :
            LET sides == proj.team_id_to_attacking_side[period]
            IN  /\ {sides.home, sides.away} = {LEFT_TO_RIGHT, RIGHT_TO_LEFT}
                /\ sides.home # sides.away

\* the side of the team of the projected event
ProjectedSide == SideOf(proj.team_id_to_attacking_side, proj.event)

NearestHundredth(projected, v) ==
    /\ projected # Unknown
    /\ Abs(10 * projected[1] - v) < 5

RowsWithout(rows, dropped) ==
    LET kept == { k \in DOMAIN rows : k \notin dropped }
        Pick(n) == CHOOSE k \in kept : Cardinality({ j \in kept : j < k }) = n - 1
    IN  [n \in 1..Cardinality(kept) |-> rows[Pick(n)]]

\* C18: the aggregate by event type is computed over is_matched_applicable
\* events only: an event with is_matched_applicable = false contributes to no
\* row's nb_events, is_matched or is_not_matched count
C18_AggregateOverApplicableOnly ==
    (report # <<>> /\ report.pc = "by_event_type") =>
        LET rows == report.report_by_event
            applicable == GroupBySum(RowsWithout(rows,
                              { k \in DOMAIN rows : ~rows[k].is_matched_applicable }))
        IN  \A t \in DOMAIN report.report_by_event_type :
                LET got == report.report_by_event_type[t]
                    Count(col) == IF t \in DOMAIN applicable THEN applicable[t][col] ELSE 0
                IN  /\ got.nb_events = Count("nb_events")
                    /\ got.is_matched = Count("is_matched")
                    /\ got.is_not_matched = Count("is_not_matched")

\* C19: the negative-period-start warning is emitted iff some synchronized
\* period, whichever its number, has a refined start below -100 frames, and
\* the check never raises, whatever the periods of the tracking
C19_NegativeStartWarning ==
    (warn # <<>> /\ warn.pc = "checked") =>
        /\ warn.err = "none"
        /\ warn.warned <=>
             \E period \in DOMAIN warn.refined_period_start_frame :
                 warn.refined_period_start_frame[period] < ACCEPTABLE_NEGATIVE_TH

\* C20: the coarse step discards a rostered player only when the player has
\* fewer than MIN_PASS_PER_PERIOD[period] passes in the period; with exactly
\* that many the player contributes an estimate
C20_ExactlyMinPassesContributes ==
    pc # "sync" =>
        \A k \in DOMAIN periods :
            \A ply_id \in DOMAIN ply_id_to_idx :
                Cardinality(PassEventsOf(periods[k], ply_id)) >= MIN_PASS_PER_PERIOD(periods[k])
                    => ply_id \in CoarsePlayers(periods[k])

\* the valid frames of [f_e - 25, f_e + 25) where the player of the pass i is
\* closer to the ball than 2.5 m, f_e being the candidate frame of the pass
CloseValidFrames(i) ==
    LET f_e == get_event_frame(evIn[i].ts, fine.estimated_period_start_frame)
    IN  { f \in Frames : /\ f_e - SEARCH_OFFSET <= f
                         /\ f < f_e + SEARCH_OFFSET
                         /\ dist[f][ply_id_to_idx[evIn[i].player_id]] # NaN
                         /\ dist[f][ply_id_to_idx[evIn[i].player_id]] < TH_DIST_PLY_BALL }

\* C21: a pass of a rostered player with candidate frame f_e is matched iff a
\* valid frame of [f_e - 25, f_e + 25) has the player closer than 2.5 m to
\* the ball, its matched frame being the highest such frame
C21_MatchedIffCloseValidFrame ==
    (fine # <<>> /\ fine.pc # "estimated") =>
        \A i \in FinePassEvents(1) :
            /\ i \in DOMAIN fine.matched_passes_list <=> CloseValidFrames(i) # {}
            /\ i \in DOMAIN fine.matched_passes_list =>
                  fine.matched_passes_list[i] = SetMax(CloseValidFrames(i))

RECURSIVE SumOfDeviations(_, _)
\* the sum over the matched passes S of |matched_frame - (s + round(ts * FPS))|
SumOfDeviations(S, s) ==
    IF S = {} THEN 0
    ELSE LET i == CHOOSE j \in S : TRUE
         IN  Abs(fine.matched_passes_list[i] - (s + PyRound(evIn[i].ts, TsDen)))
             + SumOfDeviations(S \ {i}, s)

\* C22: with a matched pass the fine step returns s' - 1, s' being the lowest
\* candidate of [c - 25, c + 25) of minimal mean deviation over the matched
\* passes; with no matched pass it returns c
C22_FineStepResult ==
    (fine # <<>> /\ fine.pc = "refined") =>
        LET c == fine.estimated_period_start_frame
            S == DOMAIN fine.matched_passes_list
            candidates == (c - SEARCH_OFFSET) .. (c + SEARCH_OFFSET - 1)
            chosen == fine.refined + 1
        IN  IF S = {} THEN fine.refined = c
            ELSE /\ chosen \in candidates
                 /\ \A s \in candidates :
                       /\ SumOfDeviations(S, chosen) <= SumOfDeviations(S, s)
                       /\ s < chosen => SumOfDeviations(S, chosen) < SumOfDeviations(S, s)

\* C22 witness: two passes matched on different frames, several candidates tie
\* and the lowest was returned, less one; it is not the coarse estimate less one
C22_Witness ==
    /\ fine # <<>>
    /\ fine.pc = "refined"
    /\ DOMAIN fine.matched_passes_list = {1, 2}
    /\ fine.refined + 1 # fine.estimated_period_start_frame
    /\ \E s \in (fine.estimated_period_start_frame - SEARCH_OFFSET)
                  .. (fine.estimated_period_start_frame + SEARCH_OFFSET - 1) :
          /\ s > fine.refined + 1
          /\ SumOfDeviations({1, 2}, s) = SumOfDeviations({1, 2}, fine.refined + 1)

\* the event went through event_refinement and its window holds a frame
ReachedDetectionCheck(i) ==
    refine_outcome[i] \notin {"none", "skipped", "error", "empty_window"}

\* C23: event_refinement proceeds past the detection check iff the player is
\* detected on at least 50% of the frames of the window; a window with exactly
\* half of its frames detected is not aborted
C23_DetectedOnHalfProceeds ==
    \A i \in Events :
        ReachedDetectionCheck(i) =>
            (refine_outcome[i] # "low_detection"
                <=> 2 * Cardinality({ f \in Window(i) : detected[f][ply_id_to_idx[evIn[i].player_id]] })
                        >= Cardinality(Window(i)))

\* the rows of the window of event i that survive the proximity mask with a
\* finite ball acceleration
SurvivingFrames(i) ==
    { f \in Window(i) :
        /\ ~ (dist[f][ply_id_to_idx[evIn[i].player_id]] # NaN
              /\ dist[f][ply_id_to_idx[evIn[i].player_id]] > DIST_BALL_TH)
        /\ ball_acc[f] # NaN }

\* the rows from five before the last surviving row, within the window, to it
LastSurvivingRows(i) ==
    LET L == SetMax(SurvivingFrames(i))
    IN  { f \in SurvivingFrames(i) : L - LOCAL_OFFSET_FRAME_PAST <= f /\ f <= L }

\* event_refinement reached get_refine_idx_in_window on event i
ReachedFrameSelection(i) == refine_outcome[i] \in {"refined", "low_peak"}

\* C24: when the refinement succeeds, skc_frame is the first row, among the
\* rows from five before the last surviving row L up to L, of the maximum
\* surviving ball acceleration, that maximum being >= 7.0 m/s^2; when the
\* maximum is < 7.0 the event is not refined
C24_RefinedFrameSelection ==
    \A i \in Events :
        ReachedFrameSelection(i) =>
            LET rows == LastSurvivingRows(i)
                peak == SetMax({ ball_acc[f] : f \in rows })
            IN  IF peak >= BALL_ACC_TH
                THEN /\ refine_outcome[i] = "refined"
                     /\ skc_frame[i] \in rows
                     /\ ball_acc[skc_frame[i]] = peak
                     /\ \A f \in rows : ball_acc[f] = peak => skc_frame[i] <= f
                ELSE /\ refine_outcome[i] = "low_peak"
                     /\ skc_frame[i] = provider_frame[i]

\* C24 witness: an event was refined onto the first of two rows of the same
\* maximum, before its provider frame
C24_Witness ==
    \E i \in Events :
        /\ refine_outcome[i] = "refined"
        /\ skc_frame[i] < provider_frame[i]
        /\ skc_frame[i] + 1 \in LastSurvivingRows(i)
        /\ ball_acc[skc_frame[i] + 1] = ball_acc[skc_frame[i]]

\* C28: whenever the refinement changes the skc_frame of an event, the distance
\* of its player to the ball on the new skc_frame is finite and <= 3.0 m
C28_RefinedFrameIsClose ==
    \A i \in Events :
        (refine_outcome[i] = "refined" /\ skc_frame[i] # provider_frame[i]) =>
            /\ built.dist[skc_frame[i]][ply_id_to_idx[evIn[i].player_id]] # NaN
            /\ built.dist[skc_frame[i]][ply_id_to_idx[evIn[i].player_id]] <= DIST_BALL_TH

\* C25: skc_frame differs from provider_frame only for refinement candidates:
\* for a provider other than impect, only when apply_refine is true and the
\* event has to_refine; for impect, only events with to_refine when
\* apply_refine is true and only events with force_to_refine when it is false
C25_RefinementGating ==
    \A i \in Events :
        skc_frame[i] # provider_frame[i] =>
            IF event_provider # "impect"
            THEN apply_refine /\ evIn[i].to_refine
            ELSE IF apply_refine THEN evIn[i].to_refine ELSE evIn[i].force_to_refine

\* C25 witness: the pipeline is over for impect without apply_refine; the
\* forced pass was moved by the refinement, the other passes were not
C25_Witness ==
    /\ pc = "done"
    /\ run = 1
    /\ event_provider = "impect"
    /\ ~apply_refine
    /\ \E i \in Events : evIn[i].force_to_refine /\ skc_frame[i] # provider_frame[i]
    /\ \E i \in Events : /\ evIn[i].to_refine /\ ~evIn[i].force_to_refine
                         /\ IsRostered(evIn[i].player_id)

\* the events of the list up to k whose skc_frame is a row of the tracking
InRangeUpTo(k) ==
    { j \in 1 .. k : frz.events[j].skc_frame \in FrzRows }

PhaseRank(phase) ==
    CASE phase = "sync" -> 1
      [] phase = "refine" -> 2
      [] phase = "match" -> 3
      [] phase = "assemble" -> 4
      [] OTHER -> 5

\* C26: within a run the phases follow the order stamp, refine, match,
\* assemble with no back-edge; provider_frame is written by the stamping only,
\* the refinement writes skc_frame only, and the matching and the assembling
\* change neither provider_frame nor skc_frame
C26_PhaseDiscipline ==
    [][ /\ PhaseRank(pc) <= PhaseRank(pc')
        /\ provider_frame' # provider_frame => pc = "sync"
        /\ skc_frame' # skc_frame => pc \in {"sync", "refine"}
        /\ pc = "refine" => flags' = flags
      ]_vars

\* C26 witness: a run went through the four phases, its refinement moved an
\* event and its matching matched one
C26_Witness ==
    /\ pc = "done"
    /\ apply_refine
    /\ \E i \in Events : refine_outcome[i] = "refined" /\ skc_frame[i] # provider_frame[i]
    /\ \E i \in Events : is_matched[i]

\* C29: once get_refined_period_start_and_add_skc_frame is over, every event
\* of the list has provider_frame and skc_frame, whatever its period, and the
\* refinement and the matching never read an event that has none
C29_StampingComplete ==
    /\ pc \in {"refine", "match", "assemble", "done"} =>
          \A i \in Events : provider_frame[i] # NoAttr /\ skc_frame[i] # NoAttr
    /\ err # "AttributeError"

\* C30: after the refinement, two events that follow each other in the list
\* with provider_frame(i) < provider_frame(i+1) have skc_frame(i) <=
\* skc_frame(i+1), whichever of the two were refined
C30_RefinementPreservesOrder ==
    pc = "match" =>
       \A i \in 1 .. NbEvents - 1 :
          provider_frame[i] < provider_frame[i + 1] => skc_frame[i] <= skc_frame[i + 1]
====
